---- MODULE Spec2Model ----
(***************************************************************************)
(* A model of the messengerKo backend: the document stores (User,          *)
(* Conversation, Message), the REST handlers that write them, and the      *)
(* socket gateway with its in-memory presence registry.                    *)
(*                                                                         *)
(* A handler is a JavaScript async function.  It runs without interruption *)
(* from one `await` to the next, and other handlers run in between.  Each  *)
(* handler is therefore a chain of atomic steps, one per database round    *)
(* trip; the handler's local variables between two steps live in a task    *)
(* record in `tasks`.  Two consecutive awaits are merged into one step     *)
(* only where both are reads of different stores, or where the second one  *)
(* touches nothing but the handler's own locals.                           *)
(*                                                                         *)
(* A Mongoose document is a private copy of a row: a handler decides on    *)
(* the copy it loaded, and save() sends only the paths it modified.        *)
(***************************************************************************)
EXTENDS Integers, Sequences, FiniteSets, Bags, TLC

(***************************************************************************)
(* Bounds of the model.                                                    *)
(***************************************************************************)
NumUsers == 3
MaxConvs == 2
MaxMsgs == 2
MaxTasks == 2
MaxBody == 2
NumSocks == 2
MaxTime == 2
MaxManaged == 1
NumAdmins == 2

NULL == 0

Users == 1..NumUsers
Socks == 1..NumSocks

Range(s) == {s[i] : i \in 1..Len(s)}

RECURSIVE SeqsUpTo(_, _)
SeqsUpTo(S, n) ==
  IF n = 0 THEN {<<>>}
  ELSE LET shorter == SeqsUpTo(S, n - 1)
       IN  shorter \cup {Append(s, x) : s \in {q \in shorter : Len(q) = n - 1}, x \in S}

(***************************************************************************)
(* An array of ObjectIds (participants, readBy) is kept as the bag of its  *)
(* elements: the handlers push to an array, filter it, ask whether it      *)
(* holds an id and take its length, and none reads an element by position. *)
(***************************************************************************)
RECURSIVE ArrayOf(_)
ArrayOf(seq) ==
  IF seq = <<>> THEN EmptyBag ELSE ArrayOf(Tail(seq)) (+) SetToBag({Head(seq)})

length(array) == BagCardinality(array)
includes(array, x) == BagIn(x, array)
push(array, x) == array (+) SetToBag({x})
filterOut(array, x) == [y \in BagToSet(array) \ {x} |-> array[y]]
Members(array) == BagToSet(array)

(***************************************************************************)
(* The state.                                                              *)
(*   users        the User collection, by _id                              *)
(*   convs        the Conversation collection; the index is the _id        *)
(*   msgs         the Message collection; the index is the _id             *)
(*   socks        the socket.io connections: state, identity, rooms and    *)
(*                whether a save() of socket.user is in flight             *)
(*   activeUsers  the presence registry (userId -> socketId, NULL absent)  *)
(*   tasks        the handlers suspended at an await (a bag)               *)
(*   ret          what the step just taken sent: an HTTP response or a     *)
(*                socket emission with the connections it was delivered to *)
(*   now          the wall clock (1 at the start, so that 0 is no time)    *)
(*   observed     the operations whose responses and emissions `ret`       *)
(*                records; a step of any other operation leaves it blank   *)
(*   admins       the Admin collection, by _id                             *)
(***************************************************************************)
VARIABLES users, convs, msgs, socks, activeUsers, tasks, ret, now, observed, admins

vars == <<users, convs, msgs, socks, activeUsers, tasks, ret, now, observed, admins>>

(***************************************************************************)
(* Identifiers as the client spells them.  A 24-digit hex string names an  *)
(* ObjectId in either letter case; ObjectId.toString() gives lower case.   *)
(***************************************************************************)
IdStr(u, up) == [id |-> u, upper |-> up]
IdStrs == {IdStr(u, up) : u \in Users, up \in BOOLEAN}
toString(u) == IdStr(u, FALSE)
CastObjectId(s) == s.id
CastIds(strs) == [i \in 1..Len(strs) |-> CastObjectId(strs[i])]

\* [...new Set(seq)]: the first occurrence of every string, in order.
RECURSIVE NewSet(_)
NewSet(seq) ==
  IF seq = <<>> THEN <<>>
  ELSE LET front == NewSet(SubSeq(seq, 1, Len(seq) - 1))
           last == seq[Len(seq)]
       IN  IF last \in Range(front) THEN front ELSE Append(front, last)

Bodies == SeqsUpTo(IdStrs, MaxBody) \ {<<>>}
ConvTypes == {"direct", "group"}

(***************************************************************************)
(* Records.                                                                *)
(***************************************************************************)
NoRet ==
  [op |-> "none", user |-> NULL, sock |-> NULL, status |-> 0, conv |-> NULL,
   msg |-> NULL, ev |-> "none", to |-> {}, set |-> {}, type |-> "none",
   count |-> 0, text |-> <<>>, at |-> NULL, view |-> {}]

NoTask ==
  [kind |-> "none", pc |-> "none", user |-> NULL, sock |-> NULL, conv |-> NULL,
   msg |-> NULL, parts |-> EmptyBag, type |-> "none", stale |-> FALSE,
   ids |-> EmptyBag, sub |-> <<>>, target |-> NULL, found |-> FALSE,
   text |-> <<>>, at |-> NULL, mod |-> {}, reply |-> NULL, view |-> {}]

Seen(r) == IF r.op \in observed THEN r ELSE NoRet

NewUser ==
  [exists |-> TRUE, isActive |-> TRUE, isOnline |-> FALSE, socketId |-> NULL,
   lastSeen |-> 1]

NumTasks == BagCardinality(tasks)
TaskSet == BagToSet(tasks)
Spawn(t) == tasks (+) SetToBag({t})
Finish(t) == tasks (-) SetToBag({t})
Become(t, t2) == (tasks (-) SetToBag({t})) (+) SetToBag({t2})

ConvIds == 1..Len(convs)
MsgIds == 1..Len(msgs)
LiveConvs == {c \in ConvIds : convs[c].exists}

\* Rows the handlers in flight are still going to insert.
PendingConvs == BagCardinality([t \in {x \in TaskSet : x.kind = "createConversation"} |-> tasks[t]])

(***************************************************************************)
(* middleware/auth.js is not part of the sources: authenticateToken loads  *)
(* req.user from the bearer credential and rejects a credential whose      *)
(* account is gone.                                                        *)
(***************************************************************************)
authenticateToken(u) == users[u].exists

(***************************************************************************)
(* models/Conversation.js                                                  *)
(***************************************************************************)
\* pre('save'): the participant validation, on the document being saved.
preSaveValid(type, participants) ==
  /\ ~(type = "direct" /\ length(participants) # 2)
  /\ ~(type = "group" /\ length(participants) < 2)

\* { type: 'direct', participants: { $all: [userId1, userId2] } }
MatchesDirectOfCreator(c, userId1, userId2) ==
  /\ convs[c].exists
  /\ convs[c].type = "direct"
  /\ includes(convs[c].participants, userId1)
  /\ convs[c].createdBy = userId2

MatchesDirect(c, userId1, userId2) ==
  /\ convs[c].exists
  /\ convs[c].type = "direct"
  /\ includes(convs[c].participants, userId1)
  /\ includes(convs[c].participants, userId2)

\* findOne: the first matching row in insertion order, NULL when none.
findDirectConversation(userId1, userId2) ==
  LET hits == {c \in ConvIds : MatchesDirect(c, userId1, userId2)}
  IN  IF hits = {} THEN NULL ELSE CHOOSE c \in hits : \A d \in hits : c <= d

NewConversation(participants, type, createdBy) ==
  [exists |-> TRUE, type |-> type, participants |-> participants,
   lastMessage |-> NULL, lastActivity |-> now, createdBy |-> createdBy,
   isActive |-> TRUE]

(***************************************************************************)
(* routes/conversations.js: POST /api/conversations                        *)
(***************************************************************************)
allParticipantsOf(body, caller) == NewSet(Append(body, toString(caller)))

\* User.find({ _id: { $in: allParticipants } }).length
validParticipantCount(ids) == Cardinality({u \in Range(ids) : users[u].exists})

\* The response, with the participants the request named (set) and how many
\* identifier strings were left after adding the caller (count).
CreateRet(caller, named, count, type, status, conv) ==
  Seen([NoRet EXCEPT !.op = "createConversation", !.user = caller, !.set = named,
                     !.type = type, !.status = status, !.conv = conv,
                     !.count = count])

\* Up to the save(): the lookup of an existing direct conversation, the
\* existence check of the participants and the pre-save validation.
PostConversation(caller, body, type) ==
  /\ authenticateToken(caller)
  /\ LET all == allParticipantsOf(body, caller)
         ids == CastIds(all)
         existing == IF type = "direct" /\ Len(all) = 2
                     THEN findDirectConversation(ids[1], ids[2]) ELSE NULL
     IN  IF existing # NULL
         THEN /\ ret' = CreateRet(caller, Range(ids), Len(all), type, 200, existing)
              /\ UNCHANGED tasks
         ELSE IF validParticipantCount(ids) # Len(all)
         THEN /\ ret' = CreateRet(caller, Range(ids), Len(all), type, 400, NULL)
              /\ UNCHANGED tasks
         ELSE IF ~preSaveValid(type, ArrayOf(ids))
         THEN /\ ret' = CreateRet(caller, Range(ids), Len(all), type, 500, NULL)
              /\ UNCHANGED tasks
         ELSE /\ tasks' = Spawn([NoTask EXCEPT !.kind = "createConversation",
                                               !.pc = "save", !.user = caller,
                                               !.parts = ArrayOf(ids), !.type = type])
              /\ ret' = NoRet
  /\ UNCHANGED <<users, convs, msgs, socks, activeUsers, now, observed, admins>>

\* conversation.save() inserts the row; the response follows.
PostConversationSave(t) ==
  /\ t.kind = "createConversation" /\ t.pc = "save"
  /\ convs' = Append(convs, NewConversation(t.parts, t.type, t.user))
  /\ tasks' = Finish(t)
  /\ ret' = CreateRet(t.user, Members(t.parts), length(t.parts), t.type, 201, Len(convs) + 1)
  /\ UNCHANGED <<users, msgs, socks, activeUsers, now, observed, admins>>

(***************************************************************************)
(* Mongoose versioning.  A save() that replaces a whole array ($set of     *)
(* `participants`) carries the document's __v in its filter and fails with *)
(* a VersionError when another save has incremented __v since the document *)
(* was loaded; a save() that pushes to an array only increments __v.  The  *)
(* `stale` flag of a task is "__v of the row differs from __v of my copy". *)
(***************************************************************************)
ChecksVersion(t) == t.kind \in {"leaveConversation", "removeMember"} /\ t.pc = "save"

IncrementVersion(B, c) ==
  LET F(t) == IF t.conv = c /\ ChecksVersion(t) THEN [t EXCEPT !.stale = TRUE] ELSE t
      S == BagToSet(B)
  IN  [y \in {F(t) : t \in S} |->
         BagCardinality([t \in {x \in S : F(x) = y} |-> B[t]])]

\* Conversation.findOne({ _id: id, participants: userId })
findOneOfAnyone(c, u) == IF c \in ConvIds /\ convs[c].exists THEN c ELSE NULL

findOneAsParticipant(c, u) ==
  IF c \in ConvIds /\ convs[c].exists /\ includes(convs[c].participants, u)
  THEN c ELSE NULL

findById(c) == IF c \in ConvIds /\ convs[c].exists THEN c ELSE NULL

\* removeParticipant, on the loaded copy: the participants that stay.
removeParticipant(participants, userId) == filterOut(participants, userId)

ConvRet(op, caller, c, target, status) ==
  Seen([NoRet EXCEPT !.op = op, !.user = caller, !.conv = c,
                     !.status = status, !.set = target])

(***************************************************************************)
(* routes/conversations.js: DELETE /api/conversations/:id                  *)
(***************************************************************************)
DeleteConversation(caller, c) ==
  /\ authenticateToken(caller)
  /\ IF findOneAsParticipant(c, caller) = NULL
     THEN /\ ret' = ConvRet("leaveConversation", caller, c, {caller}, 404)
          /\ UNCHANGED tasks
     ELSE LET rest == removeParticipant(convs[c].participants, caller)
          IN  IF ~preSaveValid(convs[c].type, rest)
              THEN /\ ret' = ConvRet("leaveConversation", caller, c, {caller}, 500)
                   /\ UNCHANGED tasks
              ELSE /\ tasks' = Spawn([NoTask EXCEPT !.kind = "leaveConversation",
                                                    !.pc = "save", !.user = caller,
                                                    !.conv = c, !.parts = rest])
                   /\ ret' = NoRet
  /\ UNCHANGED <<users, convs, msgs, socks, activeUsers, now, observed, admins>>

DeleteConversationSave(t) ==
  /\ t.kind = "leaveConversation" /\ t.pc = "save"
  /\ IF t.stale \/ ~convs[t.conv].exists
     THEN /\ ret' = ConvRet("leaveConversation", t.user, t.conv, {t.user}, 500)
          /\ tasks' = Finish(t)
          /\ UNCHANGED convs
     ELSE /\ convs' = [convs EXCEPT ![t.conv].participants = t.parts,
                                    ![t.conv].isActive = IF length(t.parts) = 0 THEN FALSE ELSE @]
          /\ tasks' = IncrementVersion(Finish(t), t.conv)
          /\ ret' = ConvRet("leaveConversation", t.user, t.conv, {t.user}, 200)
  /\ UNCHANGED <<users, msgs, socks, activeUsers, now, observed, admins>>

(***************************************************************************)
(* routes/conversations.js: POST /api/conversations/:id/participants       *)
(***************************************************************************)
PostParticipant(caller, c, userId) ==
  /\ authenticateToken(caller)
  /\ IF findOneAsParticipant(c, caller) = NULL \/ ~users[userId].exists
     THEN /\ ret' = ConvRet("addParticipant", caller, c, {userId}, 404)
          /\ UNCHANGED tasks
     ELSE IF includes(convs[c].participants, userId)
     THEN /\ ret' = ConvRet("addParticipant", caller, c, {userId}, 200)
          /\ UNCHANGED tasks
     ELSE IF ~preSaveValid(convs[c].type, push(convs[c].participants, userId))
     THEN /\ ret' = ConvRet("addParticipant", caller, c, {userId}, 500)
          /\ UNCHANGED tasks
     ELSE /\ tasks' = Spawn([NoTask EXCEPT !.kind = "addParticipant",
                                           !.pc = "save", !.user = caller,
                                           !.conv = c, !.target = userId])
          /\ ret' = NoRet
  /\ UNCHANGED <<users, convs, msgs, socks, activeUsers, now, observed, admins>>

\* save() of a push: { $push: { participants: ... } } on the row as it is now.
PostParticipantSave(t) ==
  /\ t.kind = "addParticipant" /\ t.pc = "save"
  /\ IF ~convs[t.conv].exists
     THEN /\ ret' = ConvRet("addParticipant", t.user, t.conv, {t.target}, 500)
          /\ tasks' = Finish(t)
          /\ UNCHANGED convs
     ELSE /\ convs' = [convs EXCEPT ![t.conv].participants = push(@, t.target)]
          /\ tasks' = IncrementVersion(Finish(t), t.conv)
          /\ ret' = ConvRet("addParticipant", t.user, t.conv, {t.target}, 200)
  /\ UNCHANGED <<users, msgs, socks, activeUsers, now, observed, admins>>

(***************************************************************************)
(* models/Message.js: a new document with the schema defaults.             *)
(***************************************************************************)
NewMessage(c, sender, content, type, replyTo) ==
  [exists |-> TRUE, conversation |-> c, sender |-> sender, content |-> content,
   type |-> type, fileUrl |-> NULL, fileName |-> NULL, fileSize |-> NULL,
   readBy |-> EmptyBag, editedAt |-> NULL, isEdited |-> FALSE,
   isDeleted |-> FALSE, deletedAt |-> NULL, replyTo |-> replyTo,
   createdAt |-> now]

InsertsMessage(t) ==
  \/ t.kind \in {"addMembers", "removeMember"} /\ t.pc \in {"save", "message"}
  \/ t.kind = "sendMessage" /\ t.pc = "save"

PendingMsgs == BagCardinality([t \in {x \in TaskSet : InsertsMessage(x)} |-> tasks[t]])

RoomForMessage == Len(msgs) + PendingMsgs < MaxMsgs
RoomForConv(max) == Len(convs) + PendingConvs < max

\* conversation.updateLastActivity(messageId): the pre-save validation runs
\* on the handler's copy, then lastActivity and lastMessage are written.
touchActivity(c, messageId) == [convs EXCEPT ![c].lastActivity = now]

updateLastActivity(c, messageId) ==
  [convs EXCEPT ![c].lastActivity = now,
                ![c].lastMessage = IF messageId # NULL THEN messageId ELSE @]

(***************************************************************************)
(* routes/groupMembers.js: POST /api/conversations/:id/members             *)
(***************************************************************************)
UserSets == SUBSET Users \ {{}}

\* The loop over usersToAdd: those not yet in the loaded participants.
addedUsers(participants, userIds) == {u \in userIds : ~includes(participants, u)}

RECURSIVE pushAll(_, _)
pushAll(array, S) ==
  IF S = {} THEN array
  ELSE LET x == CHOOSE y \in S : TRUE IN pushAll(push(array, x), S \ {x})

PostMembers(caller, c, userIds) ==
  /\ authenticateToken(caller)
  /\ IF findById(c) = NULL
     THEN /\ ret' = ConvRet("addMembers", caller, c, userIds, 404)
          /\ UNCHANGED tasks
     ELSE IF ~users[convs[c].createdBy].exists
     THEN \* createdBy populates to null; createdBy._id throws
          /\ ret' = ConvRet("addMembers", caller, c, userIds, 500)
          /\ UNCHANGED tasks
     ELSE IF ~includes(convs[c].participants, caller) /\ convs[c].createdBy # caller
     THEN /\ ret' = ConvRet("addMembers", caller, c, userIds, 403)
          /\ UNCHANGED tasks
     ELSE IF convs[c].type # "group"
     THEN /\ ret' = ConvRet("addMembers", caller, c, userIds, 400)
          /\ UNCHANGED tasks
     ELSE IF \E u \in userIds : ~(users[u].exists /\ users[u].isActive)
     THEN /\ ret' = ConvRet("addMembers", caller, c, userIds, 400)
          /\ UNCHANGED tasks
     ELSE LET added == addedUsers(convs[c].participants, userIds)
              after == pushAll(convs[c].participants, added)
          IN  IF added = {}
              THEN /\ ret' = ConvRet("addMembers", caller, c, userIds, 200)
                   /\ UNCHANGED tasks
              ELSE IF ~preSaveValid(convs[c].type, after)
              THEN /\ ret' = ConvRet("addMembers", caller, c, userIds, 500)
                   /\ UNCHANGED tasks
              ELSE /\ tasks' = Spawn([NoTask EXCEPT !.kind = "addMembers",
                                                    !.pc = "save", !.user = caller,
                                                    !.conv = c, !.type = "group",
                                                    !.parts = after,
                                                    !.ids = SetToBag(added)])
                   /\ ret' = NoRet
  /\ UNCHANGED <<users, convs, msgs, socks, activeUsers, now, observed, admins>>

\* conversation.save(): { $push: { participants: { $each: added } } }
PostMembersSave(t) ==
  /\ t.kind = "addMembers" /\ t.pc = "save"
  /\ IF ~convs[t.conv].exists
     THEN /\ ret' = ConvRet("addMembers", t.user, t.conv, Members(t.ids), 500)
          /\ tasks' = Finish(t)
          /\ UNCHANGED convs
     ELSE /\ convs' = [convs EXCEPT ![t.conv].participants = pushAll(@, Members(t.ids))]
          /\ tasks' = IncrementVersion(Become(t, [t EXCEPT !.pc = "message"]), t.conv)
          /\ ret' = NoRet
  /\ UNCHANGED <<users, msgs, socks, activeUsers, now, observed, admins>>

\* systemMessage.save()
SystemMessageSave(t) ==
  /\ t.kind \in {"addMembers", "removeMember"} /\ t.pc = "message"
  /\ msgs' = Append(msgs, NewMessage(t.conv, t.user,
                                     IF t.kind = "addMembers" THEN <<"added to the group">>
                                     ELSE IF t.user = t.target THEN <<"left the group">>
                                     ELSE <<"removed from the group">>,
                                     "system", NULL))
  /\ tasks' = Become(t, [t EXCEPT !.pc = "activity", !.msg = Len(msgs) + 1])
  /\ ret' = NoRet
  /\ UNCHANGED <<users, convs, socks, activeUsers, now, observed, admins>>

\* conversation.updateLastActivity(systemMessage._id), then the response.
SystemMessageActivity(t) ==
  /\ t.kind \in {"addMembers", "removeMember"} /\ t.pc = "activity"
  /\ IF ~convs[t.conv].exists \/ ~preSaveValid(t.type, t.parts)
     THEN /\ ret' = ConvRet(t.kind, t.user, t.conv, Members(t.ids), 500)
          /\ UNCHANGED convs
     ELSE /\ convs' = updateLastActivity(t.conv, t.msg)
          /\ ret' = ConvRet(t.kind, t.user, t.conv, Members(t.ids), 200)
  /\ tasks' = Finish(t)
  /\ UNCHANGED <<users, msgs, socks, activeUsers, now, observed, admins>>

(***************************************************************************)
(* routes/groupMembers.js: DELETE /api/conversations/:id/members/:userId   *)
(***************************************************************************)
DeleteMember(caller, c, userId) ==
  /\ authenticateToken(caller)
  /\ IF findById(c) = NULL
     THEN /\ ret' = ConvRet("removeMember", caller, c, {userId}, 404)
          /\ UNCHANGED tasks
     ELSE IF convs[c].type # "group"
     THEN /\ ret' = ConvRet("removeMember", caller, c, {userId}, 400)
          /\ UNCHANGED tasks
     ELSE IF ~users[convs[c].createdBy].exists
     THEN /\ ret' = ConvRet("removeMember", caller, c, {userId}, 500)
          /\ UNCHANGED tasks
     ELSE IF convs[c].createdBy # caller /\ caller # userId
     THEN /\ ret' = ConvRet("removeMember", caller, c, {userId}, 403)
          /\ UNCHANGED tasks
     ELSE IF ~users[userId].exists
     THEN /\ ret' = ConvRet("removeMember", caller, c, {userId}, 404)
          /\ UNCHANGED tasks
     ELSE IF ~includes(convs[c].participants, userId)
     THEN /\ ret' = ConvRet("removeMember", caller, c, {userId}, 400)
          /\ UNCHANGED tasks
     ELSE LET rest == removeParticipant(convs[c].participants, userId)
          IN  IF ~preSaveValid(convs[c].type, rest)
              THEN /\ ret' = ConvRet("removeMember", caller, c, {userId}, 500)
                   /\ UNCHANGED tasks
              ELSE /\ tasks' = Spawn([NoTask EXCEPT !.kind = "removeMember",
                                                    !.pc = "save", !.user = caller,
                                                    !.conv = c, !.type = "group",
                                                    !.parts = rest, !.target = userId,
                                                    !.ids = SetToBag({userId})])
                   /\ ret' = NoRet
  /\ UNCHANGED <<users, convs, msgs, socks, activeUsers, now, observed, admins>>

\* removeParticipant's save(): { $set: { participants: rest } } where __v matches
DeleteMemberSave(t) ==
  /\ t.kind = "removeMember" /\ t.pc = "save"
  /\ IF t.stale \/ ~convs[t.conv].exists
     THEN /\ ret' = ConvRet("removeMember", t.user, t.conv, {t.target}, 500)
          /\ tasks' = Finish(t)
          /\ UNCHANGED convs
     ELSE /\ convs' = [convs EXCEPT ![t.conv].participants = t.parts,
                                    ![t.conv].isActive = IF length(t.parts) = 0 THEN FALSE ELSE @]
          /\ tasks' = IncrementVersion(Become(t, [t EXCEPT !.pc = "message"]), t.conv)
          /\ ret' = NoRet
  /\ UNCHANGED <<users, msgs, socks, activeUsers, now, observed, admins>>

(***************************************************************************)
(* controllers/adminController.js: deleteUser                              *)
(* (DELETE /api/admin/users/:userId)                                       *)
(***************************************************************************)
AdminRet(op, userId, status) ==
  Seen([NoRet EXCEPT !.op = op, !.set = {userId}, !.status = status])

DeleteUser(userId) ==
  /\ IF ~users[userId].exists
     THEN /\ ret' = AdminRet("deleteUser", userId, 404)
          /\ UNCHANGED tasks
     ELSE /\ tasks' = Spawn([NoTask EXCEPT !.kind = "deleteUser", !.pc = "messages",
                                           !.target = userId])
          /\ ret' = NoRet
  /\ UNCHANGED <<users, convs, msgs, socks, activeUsers, now, observed, admins>>

\* Message.deleteMany({ senderId: userId }).  The schema has no path
\* senderId (the sender is `sender`): with strictQuery on, Mongoose drops
\* the unknown key and the filter is {}, with strictQuery off the filter
\* matches no document.  Which one holds is the library version's default.
DeleteUserMessages(t) ==
  /\ t.kind = "deleteUser" /\ t.pc = "messages"
  /\ \E strictQuery \in BOOLEAN :
        msgs' = IF strictQuery THEN [m \in MsgIds |-> [msgs[m] EXCEPT !.exists = FALSE]]
                ELSE msgs
  /\ tasks' = Become(t, [t EXCEPT !.pc = "pull"])
  /\ ret' = NoRet
  /\ UNCHANGED <<users, convs, socks, activeUsers, now, observed, admins>>

\* Conversation.updateMany({ participants: userId }, { $pull: { participants: userId } })
DeleteUserPull(t) ==
  /\ t.kind = "deleteUser" /\ t.pc = "pull"
  /\ convs' = [c \in ConvIds |->
                 IF convs[c].exists
                 THEN [convs[c] EXCEPT !.participants = filterOut(@, t.target)]
                 ELSE convs[c]]
  /\ tasks' = Become(t, [t EXCEPT !.pc = "purge"])
  /\ ret' = NoRet
  /\ UNCHANGED <<users, msgs, socks, activeUsers, now, observed, admins>>

\* Conversation.deleteMany({ participants: { $size: 0 } })
DeleteUserPurge(t) ==
  /\ t.kind = "deleteUser" /\ t.pc = "purge"
  /\ convs' = [c \in ConvIds |->
                 IF convs[c].exists /\ length(convs[c].participants) = 0
                 THEN [convs[c] EXCEPT !.exists = FALSE]
                 ELSE convs[c]]
  /\ tasks' = Become(t, [t EXCEPT !.pc = "user"])
  /\ ret' = NoRet
  /\ UNCHANGED <<users, msgs, socks, activeUsers, now, observed, admins>>

\* User.findByIdAndDelete(userId), then the response.
DeleteUserRow(t) ==
  /\ t.kind = "deleteUser" /\ t.pc = "user"
  /\ users' = [users EXCEPT ![t.target].exists = FALSE]
  /\ tasks' = Finish(t)
  /\ ret' = AdminRet("deleteUser", t.target, 200)
  /\ UNCHANGED <<convs, msgs, socks, activeUsers, now, observed, admins>>

(***************************************************************************)
(* Message content: a string is the sequence of its tokens, " " being a    *)
(* run of white space.  The schema path `content` is declared trim: true   *)
(* and required, and `type` is an enum.                                    *)
(***************************************************************************)
RECURSIVE TrimStart(_)
TrimStart(x) == IF x # <<>> /\ Head(x) = " " THEN TrimStart(Tail(x)) ELSE x

RECURSIVE TrimEnd(_)
TrimEnd(x) ==
  IF x # <<>> /\ x[Len(x)] = " " THEN TrimEnd(SubSeq(x, 1, Len(x) - 1)) ELSE x

Trim(x) == TrimEnd(TrimStart(x))

Contents == {<<"hello">>, <<" ", "hello">>, <<" ">>}
MessageTypes == {"text", "image", "file", "system"}
Placeholder == <<"This message was deleted">>

\* Document validation at save(): required content (after the trim setter)
\* and the type enum.
messageValid(content, type) == Trim(content) # <<>> /\ type \in MessageTypes

(***************************************************************************)
(* socket/socketHandlers.js: the gateway.  middleware/auth.js is not part  *)
(* of the sources: authenticateSocket loads socket.user from the           *)
(* credential of the handshake and sets socket.userId.                     *)
(***************************************************************************)
authenticateSocket(u) == users[u].exists

Connected(s) == socks[s].state = "connected"

\* The connections an emission to the room of conversation c is delivered to.
InRoom(c) == {s \in Socks : Connected(s) /\ c \in socks[s].rooms}

\* socket.broadcast: every connection but the sender's.
Others(s) == {s2 \in Socks \ {s} : Connected(s2)}

\* socket.emit: the sender's own connection, while it is open.
Self(s) == {s2 \in {s} : Connected(s2)}

Emit(op, s, ev, c, to) ==
  Seen([NoRet EXCEPT !.op = op, !.sock = s, !.user = socks[s].user, !.ev = ev,
                     !.conv = c, !.to = to])

isUserOnline(userId) == activeUsers[userId] # NULL

\* The paths of socket.user that setOnlineStatus(true, socket.id) modifies:
\* Mongoose marks a path modified when the assigned value differs from the
\* document's, and save() writes the modified paths only.
ModifiedOnConnect(u) == {"socketId"} \cup (IF users[u].isOnline THEN {} ELSE {"isOnline"})

\* handleConnection, up to the listeners' registration.  The save() started
\* by setOnlineStatus is not awaited.
Connect(s, u) ==
  /\ socks[s].state = "none"
  /\ authenticateSocket(u)
  /\ activeUsers' = [activeUsers EXCEPT ![u] = s]
  /\ socks' = [socks EXCEPT ![s] = [state |-> "connected", user |-> u,
                                    rooms |-> {}, saving |-> TRUE]]
  /\ tasks' = Spawn([NoTask EXCEPT !.kind = "connect", !.pc = "save", !.sock = s,
                                   !.user = u, !.mod = ModifiedOnConnect(u)])
  /\ ret' = Seen([NoRet EXCEPT !.op = "connect", !.sock = s, !.user = u,
                               !.ev = "user_online", !.to = Others(s)])
  /\ UNCHANGED <<users, convs, msgs, now, observed, admins>>

\* The write of setOnlineStatus(true, socket.id) reaches the store.
ConnectSave(t) ==
  /\ t.kind = "connect" /\ t.pc = "save"
  /\ users' = IF users[t.user].exists
              THEN [users EXCEPT ![t.user].socketId = t.sock,
                                 ![t.user].isOnline = IF "isOnline" \in t.mod THEN TRUE ELSE @]
              ELSE users
  /\ socks' = [socks EXCEPT ![t.sock].saving = FALSE]
  /\ tasks' = Finish(t)
  /\ ret' = NoRet
  /\ UNCHANGED <<convs, msgs, activeUsers, now, observed, admins>>

\* setOnlineStatus(false) on the document: what its save() writes.
KeepOnlineStatus(user, at) == [user EXCEPT !.socketId = NULL, !.lastSeen = at]

setOffline(user, at) ==
  [user EXCEPT !.isOnline = FALSE, !.socketId = NULL, !.lastSeen = at]

\* on('disconnect'), up to the await.  socket.io has emptied the rooms of
\* the connection.  A save() of socket.user while its first save() is in
\* flight is rejected with a ParallelSaveError, which the handler's catch
\* logs.
Disconnect(s) ==
  /\ Connected(s)
  /\ activeUsers' = [activeUsers EXCEPT ![socks[s].user] = NULL]
  /\ socks' = [socks EXCEPT ![s].state = "closed", ![s].rooms = {}]
  /\ IF socks[s].saving
     THEN /\ ret' = Seen([NoRet EXCEPT !.op = "disconnect", !.sock = s,
                                       !.user = socks[s].user, !.status = 500,
                                       !.type = "connecting", !.at = now])
          /\ UNCHANGED tasks
     ELSE /\ tasks' = Spawn([NoTask EXCEPT !.kind = "disconnect", !.pc = "save",
                                           !.sock = s, !.user = socks[s].user,
                                           !.at = now])
          /\ ret' = NoRet
  /\ UNCHANGED <<users, convs, msgs, now, observed, admins>>

\* The write reaches the store; then the user_offline broadcast.
DisconnectSave(t) ==
  /\ t.kind = "disconnect" /\ t.pc = "save"
  /\ tasks' = Finish(t)
  /\ IF users[t.user].exists
     THEN /\ users' = [users EXCEPT ![t.user] = setOffline(@, t.at)]
          /\ ret' = Seen([NoRet EXCEPT !.op = "disconnect", !.sock = t.sock,
                                       !.user = t.user, !.status = 200,
                                       !.type = "online",
                                       !.ev = "user_offline", !.at = t.at,
                                       !.to = Others(t.sock)])
     ELSE /\ UNCHANGED users
          /\ ret' = Seen([NoRet EXCEPT !.op = "disconnect", !.sock = t.sock,
                                       !.user = t.user, !.status = 500,
                                       !.type = "online", !.at = t.at])
  /\ UNCHANGED <<convs, msgs, socks, activeUsers, now, observed, admins>>

\* on('join_conversation'): the membership query.
JoinConversation(s, c) ==
  /\ Connected(s)
  /\ tasks' = Spawn([NoTask EXCEPT !.kind = "join", !.pc = "found", !.sock = s,
                                   !.user = socks[s].user, !.conv = c,
                                   !.found = findOneAsParticipant(c, socks[s].user) # NULL])
  /\ ret' = NoRet
  /\ UNCHANGED <<users, convs, msgs, socks, activeUsers, now, observed, admins>>

\* The query's result: join the room and notify it, or do nothing.
JoinConversationFound(t) ==
  /\ t.kind = "join" /\ t.pc = "found"
  /\ tasks' = Finish(t)
  /\ IF t.found
     THEN /\ socks' = [socks EXCEPT ![t.sock].rooms = @ \cup {t.conv}]
          /\ ret' = Emit("join", t.sock, "user_joined_conversation", t.conv,
                         InRoom(t.conv) \ {t.sock})
     ELSE /\ UNCHANGED socks
          /\ ret' = Emit("join", t.sock, "none", t.conv, {})
  /\ UNCHANGED <<users, convs, msgs, activeUsers, now, observed, admins>>

\* on('leave_conversation')
LeaveConversation(s, c) ==
  /\ Connected(s)
  /\ socks' = [socks EXCEPT ![s].rooms = @ \ {c}]
  /\ ret' = Emit("leave", s, "user_left_conversation", c, InRoom(c) \ {s})
  /\ UNCHANGED <<users, convs, msgs, activeUsers, tasks, now, observed, admins>>

\* on('typing_start'), on('typing_stop')
TypingEvents == {"user_typing", "user_stopped_typing"}

Typing(s, c, ev) ==
  /\ Connected(s)
  /\ ret' = Emit("typing", s, ev, c, InRoom(c) \ {s})
  /\ UNCHANGED <<users, convs, msgs, socks, activeUsers, tasks, now, observed, admins>>

\* on('update_status')
UpdateStatus(s) ==
  /\ Connected(s)
  /\ ret' = Emit("updateStatus", s, "user_status_changed", NULL, Others(s))
  /\ UNCHANGED <<users, convs, msgs, socks, activeUsers, tasks, now, observed, admins>>

(***************************************************************************)
(* routes/auth.js: POST /api/auth/login and POST /api/auth/logout, and     *)
(* controllers/adminController.js: deactivateUser.  Each handler works on  *)
(* the User document it loaded; save() writes the paths whose assigned     *)
(* value differs from the loaded one.                                      *)
(***************************************************************************)
\* The paths setOnlineStatus(isOnline, socketId) modifies on the document
\* loaded from the row of u.
ModifiedPaths(u, isOnline, socketId) ==
  (IF users[u].isOnline # isOnline THEN {"isOnline"} ELSE {})
  \cup (IF users[u].socketId # socketId THEN {"socketId"} ELSE {})
  \cup (IF ~isOnline THEN {"lastSeen"} ELSE {})

\* What the save() of setOnlineStatus writes to the row.
writeOnlineStatus(user, mod, isOnline, socketId, at) ==
  [user EXCEPT !.isOnline = IF "isOnline" \in mod THEN isOnline ELSE @,
               !.socketId = IF "socketId" \in mod THEN socketId ELSE @,
               !.lastSeen = IF "lastSeen" \in mod THEN at ELSE @]

AuthRet(op, u, status) == Seen([NoRet EXCEPT !.op = op, !.user = u, !.status = status])

\* login: the account is looked up, then the password is compared.
Login(u, passwordMatches) ==
  /\ IF ~users[u].exists
     THEN ret' = AuthRet("login", u, 400) /\ UNCHANGED tasks
     ELSE IF ~users[u].isActive
     THEN ret' = AuthRet("login", u, 403) /\ UNCHANGED tasks
     ELSE IF ~passwordMatches
     THEN ret' = AuthRet("login", u, 400) /\ UNCHANGED tasks
     ELSE /\ tasks' = Spawn([NoTask EXCEPT !.kind = "login", !.pc = "save", !.user = u,
                                           !.mod = ModifiedPaths(u, TRUE, NULL), !.at = now])
          /\ ret' = NoRet
  /\ UNCHANGED <<users, convs, msgs, socks, activeUsers, now, observed, admins>>

\* The save() of user.setOnlineStatus(true).
LoginSave(t) ==
  /\ t.kind = "login" /\ t.pc = "save"
  /\ tasks' = Finish(t)
  /\ IF users[t.user].exists
     THEN /\ users' = [users EXCEPT ![t.user] = writeOnlineStatus(@, t.mod, TRUE, NULL, t.at)]
          /\ ret' = AuthRet("login", t.user, 200)
     ELSE /\ UNCHANGED users
          /\ ret' = AuthRet("login", t.user, 500)
  /\ UNCHANGED <<convs, msgs, socks, activeUsers, now, observed, admins>>

\* logout: req.user is the document authenticateToken loaded.
Logout(u) ==
  /\ authenticateToken(u)
  /\ tasks' = Spawn([NoTask EXCEPT !.kind = "logout", !.pc = "save", !.user = u,
                                   !.mod = ModifiedPaths(u, FALSE, NULL), !.at = now])
  /\ ret' = NoRet
  /\ UNCHANGED <<users, convs, msgs, socks, activeUsers, now, observed, admins>>

\* The save() of req.user.setOnlineStatus(false).
LogoutSave(t) ==
  /\ t.kind = "logout" /\ t.pc = "save"
  /\ tasks' = Finish(t)
  /\ IF users[t.user].exists
     THEN /\ users' = [users EXCEPT ![t.user] = writeOnlineStatus(@, t.mod, FALSE, NULL, t.at)]
          /\ ret' = AuthRet("logout", t.user, 200)
     ELSE /\ UNCHANGED users
          /\ ret' = AuthRet("logout", t.user, 500)
  /\ UNCHANGED <<convs, msgs, socks, activeUsers, now, observed, admins>>

\* deactivateUser: the admin routes run behind authenticateAdmin, which
\* sets req.admin and not req.user, so the handler's first statement
\* (userId === req.user._id.toString()) throws a TypeError and the catch
\* answers 500; User.findById and user.deactivate() are not reached.
DeactivateUser(userId) ==
  /\ ret' = AdminRet("deactivateUser", userId, 500)
  /\ UNCHANGED <<users, convs, msgs, socks, activeUsers, tasks, now, observed, admins>>

(***************************************************************************)
(* A client event that arrives without a payload: every handler starts by  *)
(* destructuring `data`, which throws a TypeError on undefined, and the     *)
(* handler's catch runs.  The catch of join_conversation, send_message and  *)
(* mark_messages_read emits an error event to the socket; the catch of the  *)
(* other handlers logs.                                                     *)
(***************************************************************************)
ClientEvents ==
  {"join_conversation", "leave_conversation", "send_message", "typing_start",
   "typing_stop", "mark_messages_read", "update_status"}

CatchEmitsError == {"join_conversation", "send_message", "mark_messages_read"}

OnWithoutData(s, event) ==
  /\ Connected(s)
  /\ ret' = Seen([NoRet EXCEPT !.op = "event", !.type = event, !.sock = s,
                               !.user = socks[s].user, !.status = 500,
                               !.ev = IF event \in CatchEmitsError THEN "error" ELSE "none",
                               !.to = IF event \in CatchEmitsError THEN Self(s) ELSE {}])
  /\ UNCHANGED <<users, convs, msgs, socks, activeUsers, tasks, now, observed, admins>>

(***************************************************************************)
(* What a client is shown of a message.  `role` tells where the message    *)
(* stands in the response: "message" and "lastMessage" are documents read  *)
(* from the store and serialised by toJSON, "replyTo" is the populated     *)
(* reply target (paths content and sender only), "own" is the handler's    *)
(* own document after its save().                                          *)
(***************************************************************************)
FileKeys == {"fileUrl", "fileName", "fileSize"}

\* Message.methods.toJSON, on the document doc of message m.
toJSON(m, doc, role) ==
  IF doc.isDeleted
  THEN [msg |-> m, role |-> role, sender |-> doc.sender, content |-> Placeholder,
        files |-> {}]
  ELSE [msg |-> m, role |-> role, sender |-> doc.sender, content |-> doc.content,
        files |-> {k \in FileKeys : doc[k] # NULL}]

\* populate('replyTo', 'content sender'): the stored paths, as they are.
replyPreview(m) ==
  IF m \in MsgIds /\ msgs[m].exists
  THEN {[msg |-> m, role |-> "replyTo", sender |-> msgs[m].sender,
         content |-> msgs[m].content, files |-> {}]}
  ELSE {}

\* populate('lastMessage') of a conversation, serialised with it.
lastMessageView(c) ==
  LET m == convs[c].lastMessage
  IN  IF m # NULL /\ m \in MsgIds /\ msgs[m].exists
      THEN {toJSON(m, msgs[m], "lastMessage")} ELSE {}

(***************************************************************************)
(* socket/socketHandlers.js: on('send_message')                            *)
(***************************************************************************)
SendRet(t, ev, to) ==
  Seen([NoRet EXCEPT !.op = "sendMessage", !.sock = t.sock, !.user = t.user,
                     !.conv = t.conv, !.ev = ev, !.to = to, !.text = t.text,
                     !.type = t.type, !.msg = t.msg])

\* The membership query.
SendMessage(s, c, content, type, replyTo) ==
  /\ Connected(s)
  /\ LET found == findOneAsParticipant(c, socks[s].user) # NULL
     IN  tasks' = Spawn([NoTask EXCEPT !.kind = "sendMessage", !.pc = "save",
                                       !.sock = s, !.user = socks[s].user, !.conv = c,
                                       !.found = found, !.text = content,
                                       !.type = type, !.reply = replyTo,
                                       !.parts = IF found THEN convs[c].participants
                                                 ELSE EmptyBag])
  /\ ret' = NoRet
  /\ UNCHANGED <<users, convs, msgs, socks, activeUsers, now, observed, admins>>

\* The query's result, the document validation and message.save().
SendMessageSave(t) ==
  /\ t.kind = "sendMessage" /\ t.pc = "save"
  /\ IF ~t.found \/ ~messageValid(t.text, t.type)
     THEN /\ ret' = SendRet(t, "error", Self(t.sock))
          /\ tasks' = Finish(t)
          /\ UNCHANGED msgs
     ELSE /\ msgs' = Append(msgs, NewMessage(t.conv, t.user, Trim(t.text), t.type, t.reply))
          /\ tasks' = Become(t, [t EXCEPT !.pc = "activity", !.msg = Len(msgs) + 1])
          /\ ret' = NoRet
  /\ UNCHANGED <<users, convs, socks, activeUsers, now, observed, admins>>

\* conversation.updateLastActivity(message._id)
SendMessageActivity(t) ==
  /\ t.kind = "sendMessage" /\ t.pc = "activity"
  /\ IF ~convs[t.conv].exists \/ ~preSaveValid(convs[t.conv].type, t.parts)
     THEN /\ ret' = SendRet(t, "error", Self(t.sock))
          /\ tasks' = Finish(t)
          /\ UNCHANGED convs
     ELSE /\ convs' = updateLastActivity(t.conv, t.msg)
          /\ tasks' = Become(t, [t EXCEPT !.pc = "populate"])
          /\ ret' = NoRet
  /\ UNCHANGED <<users, msgs, socks, activeUsers, now, observed, admins>>

\* The two populate() calls, then io.to(room).emit('new_message').
SendMessagePopulate(t) ==
  /\ t.kind = "sendMessage" /\ t.pc = "populate"
  /\ tasks' = Finish(t)
  /\ ret' = [SendRet(t, "new_message", InRoom(t.conv)) EXCEPT
               !.view = IF "sendMessage" \in observed
                        THEN {[msg |-> t.msg, role |-> "own", sender |-> t.user,
                               content |-> Trim(t.text), files |-> {}]}
                             \cup (IF t.reply # NULL THEN replyPreview(t.reply) ELSE {})
                        ELSE {}]
  /\ UNCHANGED <<users, convs, msgs, socks, activeUsers, now, observed, admins>>

(***************************************************************************)
(* routes/messages.js: POST /api/messages                                  *)
(***************************************************************************)
RestTypes == {"text", "image", "file"}

\* validateMessage: content is trimmed and must be 1 to 2000 characters.
validateMessage(content, type) == Trim(content) # <<>> /\ type \in RestTypes

MsgRet(op, caller, c, m, status, view) ==
  Seen([NoRet EXCEPT !.op = op, !.user = caller, !.conv = c, !.msg = m,
                     !.status = status,
                     !.view = IF op \in observed THEN view ELSE {}])

PostMessage(caller, c, content, type, replyTo) ==
  /\ authenticateToken(caller)
  /\ IF ~validateMessage(content, type)
     THEN /\ ret' = MsgRet("postMessage", caller, c, NULL, 400, {})
          /\ UNCHANGED tasks
     ELSE IF findOneAsParticipant(c, caller) = NULL
     THEN /\ ret' = MsgRet("postMessage", caller, c, NULL, 404, {})
          /\ UNCHANGED tasks
     ELSE /\ tasks' = Spawn([NoTask EXCEPT !.kind = "postMessage", !.pc = "save",
                                           !.user = caller, !.conv = c,
                                           !.text = Trim(content), !.type = type,
                                           !.reply = replyTo,
                                           !.parts = convs[c].participants])
          /\ ret' = NoRet
  /\ UNCHANGED <<users, convs, msgs, socks, activeUsers, now, observed, admins>>

PostMessageSave(t) ==
  /\ t.kind = "postMessage" /\ t.pc = "save"
  /\ msgs' = Append(msgs, NewMessage(t.conv, t.user, Trim(t.text), t.type, t.reply))
  /\ tasks' = Become(t, [t EXCEPT !.pc = "activity", !.msg = Len(msgs) + 1])
  /\ ret' = NoRet
  /\ UNCHANGED <<users, convs, socks, activeUsers, now, observed, admins>>

PostMessageActivity(t) ==
  /\ t.kind = "postMessage" /\ t.pc = "activity"
  /\ IF ~convs[t.conv].exists \/ ~preSaveValid(convs[t.conv].type, t.parts)
     THEN /\ ret' = MsgRet("postMessage", t.user, t.conv, t.msg, 500, {})
          /\ tasks' = Finish(t)
          /\ UNCHANGED convs
     ELSE /\ convs' = updateLastActivity(t.conv, t.msg)
          /\ tasks' = Become(t, [t EXCEPT !.pc = "populate"])
          /\ ret' = NoRet
  /\ UNCHANGED <<users, msgs, socks, activeUsers, now, observed, admins>>

PostMessagePopulate(t) ==
  /\ t.kind = "postMessage" /\ t.pc = "populate"
  /\ tasks' = Finish(t)
  /\ ret' = MsgRet("postMessage", t.user, t.conv, t.msg, 201,
                   {[msg |-> t.msg, role |-> "own", sender |-> t.user,
                     content |-> Trim(t.text), files |-> {}]}
                   \cup (IF t.reply # NULL THEN replyPreview(t.reply) ELSE {}))
  /\ UNCHANGED <<users, convs, msgs, socks, activeUsers, now, observed, admins>>

(***************************************************************************)
(* routes/messages.js: PUT /api/messages/:id                               *)
(***************************************************************************)
\* 15 * 60 * 1000 ms; the clock counts seconds.
EditWindow == 900

\* new Date(Date.now() - 15 * 60 * 1000), with a mistaken edge before it.
windowEdgeExcluded == now - EditWindow + 1

fifteenMinutesAgo == now - EditWindow

\* The responses of PUT /:id, with the request's content and the time of
\* the age check.
PutRet(caller, m, status, content, at, view) ==
  [MsgRet("putMessage", caller, NULL, m, status, view)
     EXCEPT !.text = IF "putMessage" \in observed THEN content ELSE <<>>,
            !.at = IF "putMessage" \in observed THEN at ELSE NULL]

\* Message.findOne({ _id: id, sender: userId, isDeleted: false })
findOwnMessage(m, userId) ==
  IF m \in MsgIds /\ msgs[m].exists /\ msgs[m].sender = userId /\ ~msgs[m].isDeleted
  THEN m ELSE NULL

PutMessage(caller, m, content) ==
  /\ authenticateToken(caller)
  /\ IF Trim(content) = <<>>
     THEN /\ ret' = PutRet(caller, m, 400, content, now, {})
          /\ UNCHANGED tasks
     ELSE IF findOwnMessage(m, caller) = NULL
     THEN /\ ret' = PutRet(caller, m, 404, content, now, {})
          /\ UNCHANGED tasks
     ELSE IF msgs[m].createdAt < fifteenMinutesAgo
     THEN /\ ret' = PutRet(caller, m, 400, content, now, {})
          /\ UNCHANGED tasks
     ELSE /\ tasks' = Spawn([NoTask EXCEPT !.kind = "putMessage", !.pc = "save",
                                           !.user = caller, !.msg = m,
                                           !.text = Trim(content), !.at = now,
                                           !.sub = content])
          /\ ret' = NoRet
  /\ UNCHANGED <<users, convs, msgs, socks, activeUsers, now, observed, admins>>

\* editContent's save(): content, isEdited and editedAt are the modified paths.
PutMessageSave(t) ==
  /\ t.kind = "putMessage" /\ t.pc = "save"
  /\ tasks' = Finish(t)
  /\ IF ~msgs[t.msg].exists
     THEN /\ ret' = PutRet(t.user, t.msg, 500, t.sub, t.at, {})
          /\ UNCHANGED msgs
     ELSE /\ msgs' = [msgs EXCEPT ![t.msg].content = t.text,
                                  ![t.msg].isEdited = TRUE,
                                  ![t.msg].editedAt = t.at]
          /\ ret' = PutRet(t.user, t.msg, 200, t.sub, t.at,
                           {[msg |-> t.msg, role |-> "own", sender |-> t.user,
                             content |-> t.text, files |-> {}]})
  /\ UNCHANGED <<users, convs, socks, activeUsers, now, observed, admins>>

(***************************************************************************)
(* routes/messages.js: DELETE /api/messages/:id                            *)
(***************************************************************************)
DeleteMessage(caller, m) ==
  /\ authenticateToken(caller)
  /\ IF findOwnMessage(m, caller) = NULL
     THEN /\ ret' = MsgRet("deleteMessage", caller, NULL, m, 404, {})
          /\ UNCHANGED tasks
     ELSE /\ tasks' = Spawn([NoTask EXCEPT !.kind = "deleteMessage", !.pc = "save",
                                           !.user = caller, !.msg = m, !.at = now])
          /\ ret' = NoRet
  /\ UNCHANGED <<users, convs, msgs, socks, activeUsers, now, observed, admins>>

\* softDelete on the document: what its save() writes.
softDelete(message, at) ==
  [message EXCEPT !.isDeleted = TRUE, !.deletedAt = at, !.content = Placeholder]

DeleteMessageSave(t) ==
  /\ t.kind = "deleteMessage" /\ t.pc = "save"
  /\ tasks' = Finish(t)
  /\ IF ~msgs[t.msg].exists
     THEN /\ ret' = MsgRet("deleteMessage", t.user, NULL, t.msg, 500, {})
          /\ UNCHANGED msgs
     ELSE /\ msgs' = [msgs EXCEPT ![t.msg] = softDelete(@, t.at)]
          /\ ret' = MsgRet("deleteMessage", t.user, NULL, t.msg, 200, {})
  /\ UNCHANGED <<users, convs, socks, activeUsers, now, observed, admins>>

(***************************************************************************)
(* routes/messages.js: GET /api/messages/:conversationId                   *)
(***************************************************************************)
GetMessages(caller, c) ==
  /\ authenticateToken(caller)
  /\ IF findOneAsParticipant(c, caller) = NULL
     THEN /\ ret' = MsgRet("getMessages", caller, c, NULL, 404, {})
          /\ UNCHANGED tasks
     ELSE /\ tasks' = Spawn([NoTask EXCEPT !.kind = "getMessages", !.pc = "find",
                                           !.user = caller, !.conv = c])
          /\ ret' = NoRet
  /\ UNCHANGED <<users, convs, msgs, socks, activeUsers, now, observed, admins>>

\* Message.getConversationMessages: find({ conversation, isDeleted: false })
\* with its two populate() calls, taken as one read of the store.
getConversationMessages(c) ==
  LET shown == {m \in MsgIds : /\ msgs[m].exists /\ msgs[m].conversation = c
                               /\ ~msgs[m].isDeleted}
  IN  {toJSON(m, msgs[m], "message") : m \in shown}
      \cup UNION {replyPreview(msgs[m].replyTo) : m \in {x \in shown : msgs[x].replyTo # NULL}}

GetMessagesFind(t) ==
  /\ t.kind = "getMessages" /\ t.pc = "find"
  /\ tasks' = Finish(t)
  /\ ret' = MsgRet("getMessages", t.user, t.conv, NULL, 200, getConversationMessages(t.conv))
  /\ UNCHANGED <<users, convs, msgs, socks, activeUsers, now, observed, admins>>

(***************************************************************************)
(* models/Message.js: markAsRead.  The document is the handler's copy: the *)
(* check is made on the readBy that was loaded, and the save() of a push   *)
(* is { $push: { readBy: ... } } on the row as it is then.                 *)
(***************************************************************************)
alreadyRead(readBy, userId) == includes(readBy, userId)

leaveReadBy(m, userId) == msgs

pushReadBy(m, userId) == [msgs EXCEPT ![m].readBy = push(@, userId)]

findMessageById(m) == IF m \in MsgIds /\ msgs[m].exists THEN m ELSE NULL

(***************************************************************************)
(* routes/messages.js: POST /api/messages/:id/read                         *)
(***************************************************************************)
\* Message.findById and the membership query; markAsRead decides on the
\* message as it was loaded.
PostRead(caller, m) ==
  /\ authenticateToken(caller)
  /\ IF findMessageById(m) = NULL
     THEN /\ ret' = MsgRet("postRead", caller, NULL, m, 404, {})
          /\ UNCHANGED tasks
     ELSE IF findOneAsParticipant(msgs[m].conversation, caller) = NULL
     THEN /\ ret' = MsgRet("postRead", caller, msgs[m].conversation, m, 404, {})
          /\ UNCHANGED tasks
     ELSE IF alreadyRead(msgs[m].readBy, caller)
     THEN /\ ret' = MsgRet("postRead", caller, msgs[m].conversation, m, 200, {})
          /\ UNCHANGED tasks
     ELSE /\ tasks' = Spawn([NoTask EXCEPT !.kind = "postRead", !.pc = "save",
                                           !.user = caller, !.msg = m,
                                           !.conv = msgs[m].conversation])
          /\ ret' = NoRet
  /\ UNCHANGED <<users, convs, msgs, socks, activeUsers, now, observed, admins>>

PostReadSave(t) ==
  /\ t.kind = "postRead" /\ t.pc = "save"
  /\ tasks' = Finish(t)
  /\ IF ~msgs[t.msg].exists
     THEN /\ ret' = MsgRet("postRead", t.user, t.conv, t.msg, 500, {})
          /\ UNCHANGED msgs
     ELSE /\ msgs' = pushReadBy(t.msg, t.user)
          /\ ret' = MsgRet("postRead", t.user, t.conv, t.msg, 200, {})
  /\ UNCHANGED <<users, convs, socks, activeUsers, now, observed, admins>>

(***************************************************************************)
(* socket/socketHandlers.js: on('mark_messages_read').  Promise.all starts *)
(* one findById per element of messageIds; `sub` holds, per element, the   *)
(* message it names and where its callback stands.                         *)
(***************************************************************************)
MessageIdLists == SeqsUpTo(1..MaxMsgs, MaxBody) \ {<<>>}

\* `set` holds the ids the event named.
MarkRet(t, ev, to) ==
  Seen([NoRet EXCEPT !.op = "markRead", !.sock = t.sock, !.user = t.user,
                     !.conv = t.conv, !.ev = ev, !.to = to,
                     !.set = {t.sub[i].msg : i \in 1..Len(t.sub)}])

\* The membership query.
MarkMessagesRead(s, c, messageIds) ==
  /\ Connected(s)
  /\ tasks' = Spawn([NoTask EXCEPT !.kind = "markRead", !.pc = "found", !.sock = s,
                                   !.user = socks[s].user, !.conv = c,
                                   !.found = findOneAsParticipant(c, socks[s].user) # NULL,
                                   !.sub = [i \in 1..Len(messageIds) |->
                                              [msg |-> messageIds[i], pc |-> "find"]]])
  /\ ret' = NoRet
  /\ UNCHANGED <<users, convs, msgs, socks, activeUsers, now, observed, admins>>

\* The query's result: an error to the caller, or the findById calls start.
MarkMessagesReadFound(t) ==
  /\ t.kind = "markRead" /\ t.pc = "found"
  /\ IF t.found
     THEN /\ tasks' = Become(t, [t EXCEPT !.pc = "marking"])
          /\ ret' = NoRet
     ELSE /\ tasks' = Finish(t)
          /\ ret' = MarkRet(t, "error", Self(t.sock))
  /\ UNCHANGED <<users, convs, msgs, socks, activeUsers, now, observed, admins>>

\* One callback's Message.findById: a missing message is skipped, a message
\* that holds the reader is left alone, any other is going to be pushed to.
MarkFind(t, i) ==
  /\ t.kind = "markRead" /\ t.pc = "marking"
  /\ i \in 1..Len(t.sub) /\ t.sub[i].pc = "find"
  /\ LET m == findMessageById(t.sub[i].msg)
         next == IF m # NULL /\ ~alreadyRead(msgs[m].readBy, t.user)
                 THEN "save" ELSE "done"
     IN  tasks' = Become(t, [t EXCEPT !.sub[i].pc = next])
  /\ ret' = NoRet
  /\ UNCHANGED <<users, convs, msgs, socks, activeUsers, now, observed, admins>>

\* One callback's save().
MarkSave(t, i) ==
  /\ t.kind = "markRead" /\ t.pc = "marking"
  /\ i \in 1..Len(t.sub) /\ t.sub[i].pc = "save"
  /\ msgs' = pushReadBy(t.sub[i].msg, t.user)
  /\ tasks' = Become(t, [t EXCEPT !.sub[i].pc = "done"])
  /\ ret' = NoRet
  /\ UNCHANGED <<users, convs, socks, activeUsers, now, observed, admins>>

\* Promise.all has resolved: messages_read to the rest of the room.
MarkEmit(t) ==
  /\ t.kind = "markRead" /\ t.pc = "marking"
  /\ \A i \in 1..Len(t.sub) : t.sub[i].pc = "done"
  /\ tasks' = Finish(t)
  /\ ret' = MarkRet(t, "messages_read", InRoom(t.conv) \ {t.sock})
  /\ UNCHANGED <<users, convs, msgs, socks, activeUsers, now, observed, admins>>

(***************************************************************************)
(* models/Message.js: getUnreadCount, a countDocuments over the collection *)
(***************************************************************************)
\* { conversation, sender: { $ne: userId }, 'readBy.user': { $ne: userId },
\*   isDeleted: false }
MatchesAnyState(m, c, userId) ==
  /\ msgs[m].exists
  /\ msgs[m].conversation = c
  /\ msgs[m].sender # userId
  /\ \A reader \in Members(msgs[m].readBy) : reader # userId

MatchesUnread(m, c, userId) ==
  /\ msgs[m].exists
  /\ msgs[m].conversation = c
  /\ msgs[m].sender # userId
  /\ \A reader \in Members(msgs[m].readBy) : reader # userId
  /\ msgs[m].isDeleted = FALSE

RECURSIVE countDocuments(_, _, _)
countDocuments(upTo, c, userId) ==
  IF upTo = 0 THEN 0
  ELSE countDocuments(upTo - 1, c, userId)
       + (IF MatchesUnread(upTo, c, userId) THEN 1 ELSE 0)

getUnreadCount(c, userId) == countDocuments(Len(msgs), c, userId)

(***************************************************************************)
(* routes/conversations.js: GET /api/conversations/:id                     *)
(***************************************************************************)
CountRet(op, caller, c, status, count, results, view) ==
  Seen([NoRet EXCEPT !.op = op, !.user = caller, !.conv = c, !.status = status,
                     !.count = count, !.set = results,
                     !.view = IF op \in observed THEN view ELSE {}])

\* findOne({ _id, participants }) with its populate() calls.
GetConversation(caller, c) ==
  /\ authenticateToken(caller)
  /\ IF findOneAsParticipant(c, caller) = NULL
     THEN /\ ret' = CountRet("getConversation", caller, c, 404, 0, {}, {})
          /\ UNCHANGED tasks
     ELSE /\ tasks' = Spawn([NoTask EXCEPT !.kind = "getConversation", !.pc = "count",
                                           !.user = caller, !.conv = c,
                                           !.view = lastMessageView(c)])
          /\ ret' = NoRet
  /\ UNCHANGED <<users, convs, msgs, socks, activeUsers, now, observed, admins>>

\* getUnreadCount, then the response.
GetConversationCount(t) ==
  /\ t.kind = "getConversation" /\ t.pc = "count"
  /\ tasks' = Finish(t)
  /\ ret' = CountRet("getConversation", t.user, t.conv, 200,
                     getUnreadCount(t.conv, t.user), {}, t.view)
  /\ UNCHANGED <<users, convs, msgs, socks, activeUsers, now, observed, admins>>

(***************************************************************************)
(* routes/conversations.js: GET /api/conversations.  Promise.all starts    *)
(* one getUnreadCount per conversation found; `ids` holds the              *)
(* conversations still to be counted, `sub` the counts made.               *)
(***************************************************************************)
\* find({ participants: userId, isActive: true })
findUserConversations(userId) ==
  {c \in LiveConvs : includes(convs[c].participants, userId) /\ convs[c].isActive}

GetConversations(caller) ==
  /\ authenticateToken(caller)
  /\ LET found == findUserConversations(caller)
     IN  IF found = {}
         THEN /\ ret' = CountRet("getConversations", caller, NULL, 200, 0, {}, {})
              /\ UNCHANGED tasks
         ELSE /\ tasks' = Spawn([NoTask EXCEPT !.kind = "getConversations",
                                               !.pc = "count", !.user = caller,
                                               !.ids = SetToBag(found)])
              /\ ret' = NoRet
  /\ UNCHANGED <<users, convs, msgs, socks, activeUsers, now, observed, admins>>

\* One conversation's getUnreadCount; the response follows the last one.
GetConversationsCount(t, c) ==
  /\ t.kind = "getConversations" /\ t.pc = "count"
  /\ BagIn(c, t.ids)
  /\ LET count == getUnreadCount(c, t.user)
         rest == t.ids (-) SetToBag({c})
         counted == Append(t.sub, [conv |-> c, count |-> count])
     IN  /\ tasks' = IF rest = EmptyBag THEN Finish(t)
                     ELSE Become(t, [t EXCEPT !.ids = rest, !.sub = counted])
         /\ ret' = CountRet("getConversations", t.user, c,
                            IF rest = EmptyBag THEN 200 ELSE 0, count,
                            IF rest = EmptyBag THEN Range(counted) ELSE {}, {})
  /\ UNCHANGED <<users, convs, msgs, socks, activeUsers, now, observed, admins>>

(***************************************************************************)
(* models/Admin.js: the administrators' accounts.                          *)
(***************************************************************************)
Admins == 1..NumAdmins

Roles == {"super_admin", "admin", "moderator"}

\* pre('save'): the permissions a new account gets from its role.
rolePermissions(role) ==
  CASE role = "super_admin" ->
         {"user_management", "conversation_management", "message_management",
          "system_settings", "analytics_view", "admin_management"}
    [] role = "admin" ->
         {"user_management", "conversation_management", "message_management",
          "analytics_view"}
    [] role = "moderator" -> {"user_management", "message_management"}

NewAdmin(role) ==
  [exists |-> TRUE, isActive |-> TRUE, role |-> role,
   permissions |-> rolePermissions(role), loginAttempts |-> 0,
   lockUntil |-> NULL, lastLogin |-> NULL]

\* this.loginAttempts + 1 >= 5
MaxLoginAttempts == 5

\* 2 * 60 * 60 * 1000 ms; the clock counts seconds.
LockTime == 7200

\* The virtual isLocked, with a lock that ends a second early.
lockEndsEarly(admin, at) == admin.lockUntil # NULL /\ admin.lockUntil > at + 1

isLocked(admin, at) == admin.lockUntil # NULL /\ admin.lockUntil > at

hasPermission(admin, permission) == permission \in admin.permissions

\* incLoginAttempts: an updateOne on the row (`stored`) that the handler's
\* document (`loaded`) decides.  $inc adds to the stored counter.
incLoginAttempts(stored, loaded, at) ==
  IF loaded.lockUntil # NULL /\ loaded.lockUntil < at
  THEN [stored EXCEPT !.lockUntil = NULL, !.loginAttempts = 1]
  ELSE [stored EXCEPT !.loginAttempts = @ + 1,
                      !.lockUntil = IF /\ loaded.loginAttempts + 1 >= MaxLoginAttempts
                                       /\ ~isLocked(loaded, at)
                                    THEN at + LockTime ELSE @]

\* resetLoginAttempts: $unset of the counter and the lock; a counter that
\* is unset reads as its default.
resetLoginAttempts(stored, at) ==
  [stored EXCEPT !.loginAttempts = 0, !.lockUntil = NULL, !.lastLogin = at]

(***************************************************************************)
(* routes/adminAuth.js: POST /api/admin/auth/login.  The task keeps of the *)
(* loaded document the counter (`target`) and the lock (`reply`).          *)
(***************************************************************************)
AdminLoginRet(a, status, passwordMatches, attempts, at) ==
  Seen([NoRet EXCEPT !.op = "adminLogin", !.user = a, !.status = status,
                     !.type = IF passwordMatches THEN "match" ELSE "mismatch",
                     !.count = attempts, !.at = at])

AdminLogin(a, passwordMatches) ==
  /\ LET admin == admins[a]
         Answer(status) ==
           /\ ret' = AdminLoginRet(a, status, passwordMatches, admin.loginAttempts, now)
           /\ UNCHANGED tasks
     IN  IF ~admin.exists THEN Answer(400)
         ELSE IF ~admin.isActive THEN Answer(403)
         ELSE IF isLocked(admin, now) THEN Answer(423)
         ELSE /\ tasks' = Spawn([NoTask EXCEPT !.kind = "adminLogin", !.pc = "update",
                                               !.user = a, !.found = passwordMatches,
                                               !.target = admin.loginAttempts,
                                               !.reply = admin.lockUntil, !.at = now])
              /\ ret' = NoRet
  /\ UNCHANGED <<users, convs, msgs, socks, activeUsers, now, observed, admins>>

\* comparePassword has resolved: resetLoginAttempts or incLoginAttempts.
AdminLoginUpdate(t) ==
  /\ t.kind = "adminLogin" /\ t.pc = "update"
  /\ tasks' = Finish(t)
  /\ LET loaded == [admins[t.user] EXCEPT !.loginAttempts = t.target, !.lockUntil = t.reply]
     IN  IF t.found
         THEN /\ admins' = [admins EXCEPT ![t.user] = resetLoginAttempts(@, now)]
              /\ ret' = AdminLoginRet(t.user, 200, TRUE, t.target, t.at)
         ELSE /\ admins' = [admins EXCEPT ![t.user] = incLoginAttempts(@, loaded, now)]
              /\ ret' = AdminLoginRet(t.user, 400, FALSE, t.target, t.at)
  /\ UNCHANGED <<users, convs, msgs, socks, activeUsers, now, observed>>

\* Time passes between the administrators' requests: a second, or all of
\* the lock but its last second.
LockWaits == {1, LockTime - 1}

LockInstants == (1..MaxTime) \cup (LockTime..(LockTime + MaxTime))

LockWait(d) ==
  /\ now + d \in LockInstants
  /\ now' = now + d
  /\ ret' = NoRet
  /\ UNCHANGED <<users, convs, msgs, socks, activeUsers, tasks, observed, admins>>

(***************************************************************************)
(* middleware/adminAuth.js: authenticateAdmin and requirePermission, as    *)
(* the status they answer with (0: next() is called).                      *)
(***************************************************************************)
authenticateAdmin(a) ==
  IF ~admins[a].exists THEN 401
  ELSE IF ~admins[a].isActive THEN 403
  ELSE IF isLocked(admins[a], now) THEN 423
  ELSE 0

requirePermission(a, permission) ==
  IF hasPermission(admins[a], permission) THEN 0 ELSE 403

AdminRouteRet(op, a, target, status) ==
  Seen([NoRet EXCEPT !.op = op, !.user = a, !.set = {target}, !.status = status])

(***************************************************************************)
(* routes/adminConversations.js: every route is mounted as                 *)
(* router.<verb>(path, authenticateAdmin, handler).  One request runs at a *)
(* time, so a handler is one step.                                         *)
(***************************************************************************)
\* DELETE /api/admin/conversations/:id.  Message.deleteMany({ conversationId })
\* names a path the Message schema does not have (it is `conversation`):
\* with strictQuery on the filter is {}, with strictQuery off it matches
\* no document.
AdminDeleteConversation(a, c) ==
  /\ IF authenticateAdmin(a) # 0
     THEN /\ ret' = AdminRouteRet("adminDeleteConversation", a, c, authenticateAdmin(a))
          /\ UNCHANGED <<convs, msgs>>
     ELSE IF ~(c \in ConvIds /\ convs[c].exists)
     THEN /\ ret' = AdminRouteRet("adminDeleteConversation", a, c, 404)
          /\ UNCHANGED <<convs, msgs>>
     ELSE /\ \E strictQuery \in BOOLEAN :
                msgs' = IF strictQuery
                        THEN [m \in MsgIds |-> [msgs[m] EXCEPT !.exists = FALSE]]
                        ELSE msgs
          /\ convs' = [convs EXCEPT ![c].exists = FALSE]
          /\ ret' = AdminRouteRet("adminDeleteConversation", a, c, 200)
  /\ UNCHANGED <<users, socks, activeUsers, tasks, now, observed, admins>>

\* DELETE /api/admin/conversations/bulk/all: every message and every direct
\* conversation is deleted, the groups lose their lastMessage.
AdminDeleteAll(a) ==
  /\ IF authenticateAdmin(a) # 0
     THEN /\ ret' = AdminRouteRet("adminDeleteAll", a, NULL, authenticateAdmin(a))
          /\ UNCHANGED <<convs, msgs>>
     ELSE /\ msgs' = [m \in MsgIds |-> [msgs[m] EXCEPT !.exists = FALSE]]
          /\ convs' = [c \in ConvIds |->
                         IF convs[c].type = "direct"
                         THEN [convs[c] EXCEPT !.exists = FALSE]
                         ELSE IF convs[c].exists
                         THEN [convs[c] EXCEPT !.lastMessage = NULL]
                         ELSE convs[c]]
          /\ ret' = AdminRouteRet("adminDeleteAll", a, NULL, 200)
  /\ UNCHANGED <<users, socks, activeUsers, tasks, now, observed, admins>>

\* DELETE /api/admin/conversations/bulk/nuclear
AdminDeleteNuclear(a) ==
  /\ IF authenticateAdmin(a) # 0
     THEN /\ ret' = AdminRouteRet("adminDeleteNuclear", a, NULL, authenticateAdmin(a))
          /\ UNCHANGED <<convs, msgs>>
     ELSE /\ msgs' = [m \in MsgIds |-> [msgs[m] EXCEPT !.exists = FALSE]]
          /\ convs' = [c \in ConvIds |-> [convs[c] EXCEPT !.exists = FALSE]]
          /\ ret' = AdminRouteRet("adminDeleteNuclear", a, NULL, 200)
  /\ UNCHANGED <<users, socks, activeUsers, tasks, now, observed, admins>>

(***************************************************************************)
(* routes/admin.js: router.use(authenticateAdmin), then                    *)
(* requirePermission(...) on every route.                                  *)
(***************************************************************************)
\* DELETE /api/admin/users/:userId
AdminDeleteUser(a, userId) ==
  LET refused == IF authenticateAdmin(a) # 0 THEN authenticateAdmin(a)
                 ELSE requirePermission(a, "user_management")
  IN  IF refused # 0
      THEN /\ ret' = AdminRouteRet("deleteUser", a, userId, refused)
           /\ UNCHANGED <<users, convs, msgs, socks, activeUsers, tasks, now,
                          observed, admins>>
      ELSE DeleteUser(userId)

\* PATCH /api/admin/admins/:adminId/deactivate
DeactivateAdmin(a, adminId) ==
  LET refused == IF authenticateAdmin(a) # 0 THEN authenticateAdmin(a)
                 ELSE requirePermission(a, "admin_management")
      status == IF refused # 0 THEN refused
                ELSE IF adminId = a THEN 400
                ELSE IF ~admins[adminId].exists THEN 404
                ELSE IF admins[adminId].role = "super_admin"
                        /\ admins[a].role # "super_admin" THEN 403
                ELSE 200
  IN  /\ admins' = IF status = 200 THEN [admins EXCEPT ![adminId].isActive = FALSE]
                   ELSE admins
      /\ ret' = AdminRouteRet("deactivateAdmin", a, adminId, status)
      /\ UNCHANGED <<users, convs, msgs, socks, activeUsers, tasks, now, observed>>

(***************************************************************************)
(* routes/auth.js: POST /api/auth/login, the whole handler.  The           *)
(* identifier is first looked up among the administrators, then among the  *)
(* users; Login above is the handler for an identifier that names no       *)
(* administrator.  The two collections have separate unique indexes and    *)
(* register looks the identifier up among the users only, so an identifier *)
(* can name a user and an administrator: user 1 and administrator 1 here.  *)
(***************************************************************************)
IdentifierOf(u) == [name |-> u]

findAdminByEmailOrUsername(identifier) ==
  IF identifier.name \in Admins /\ identifier.name <= 1 /\ admins[identifier.name].exists
  THEN identifier.name ELSE NULL

\* The request's credentials: which stored passwords the password equals.
Credentials(passwordMatches, adminMatches) ==
  (IF passwordMatches THEN {"user"} ELSE {}) \cup (IF adminMatches THEN {"admin"} ELSE {})

UnifiedRet(u, status, userType, credentials) ==
  Seen([NoRet EXCEPT !.op = "login", !.user = u, !.status = status,
                     !.type = userType, !.view = credentials])

UnifiedLogin(u, passwordMatches, adminMatches) ==
  LET a == findAdminByEmailOrUsername(IdentifierOf(u))
      credentials == Credentials(passwordMatches, adminMatches)
  IN  IF a = NULL THEN Login(u, passwordMatches)
      ELSE /\ IF ~admins[a].isActive
              THEN ret' = UnifiedRet(u, 403, "admin", credentials) /\ UNCHANGED tasks
              ELSE IF isLocked(admins[a], now)
              THEN ret' = UnifiedRet(u, 423, "admin", credentials) /\ UNCHANGED tasks
              ELSE /\ tasks' = Spawn([NoTask EXCEPT !.kind = "login", !.pc = "admin",
                                                    !.user = u, !.msg = a,
                                                    !.found = adminMatches,
                                                    !.view = credentials,
                                                    !.target = admins[a].loginAttempts,
                                                    !.reply = admins[a].lockUntil,
                                                    !.at = now])
                   /\ ret' = NoRet
           /\ UNCHANGED <<users, convs, msgs, socks, activeUsers, now, observed, admins>>

\* admin.comparePassword has resolved: resetLoginAttempts and the admin's
\* token, or incLoginAttempts and on to the users.
UnifiedLoginAdmin(t) ==
  /\ t.kind = "login" /\ t.pc = "admin"
  /\ LET loaded == [admins[t.msg] EXCEPT !.loginAttempts = t.target, !.lockUntil = t.reply]
     IN  IF t.found
         THEN /\ admins' = [admins EXCEPT ![t.msg] = resetLoginAttempts(@, now)]
              /\ tasks' = Finish(t)
              /\ ret' = UnifiedRet(t.user, 200, "admin", t.view)
         ELSE /\ admins' = [admins EXCEPT ![t.msg] = incLoginAttempts(@, loaded, now)]
              /\ tasks' = Become(t, [t EXCEPT !.pc = "user"])
              /\ ret' = NoRet
  /\ UNCHANGED <<users, convs, msgs, socks, activeUsers, now, observed>>

\* User.findByEmailOrUsername, isActive, user.comparePassword.
UnifiedLoginUser(t) ==
  /\ t.kind = "login" /\ t.pc = "user"
  /\ IF ~users[t.user].exists
     THEN ret' = UnifiedRet(t.user, 400, "user", t.view) /\ tasks' = Finish(t)
     ELSE IF ~users[t.user].isActive
     THEN ret' = UnifiedRet(t.user, 403, "user", t.view) /\ tasks' = Finish(t)
     ELSE IF "user" \notin t.view
     THEN ret' = UnifiedRet(t.user, 400, "user", t.view) /\ tasks' = Finish(t)
     ELSE /\ tasks' = Become(t, [t EXCEPT !.pc = "save",
                                          !.mod = ModifiedPaths(t.user, TRUE, NULL),
                                          !.at = now])
          /\ ret' = NoRet
  /\ UNCHANGED <<users, convs, msgs, socks, activeUsers, now, observed, admins>>

(***************************************************************************)
(* The wall clock.                                                         *)
(***************************************************************************)
Tick ==
  /\ now < MaxTime
  /\ now' = now + 1
  /\ ret' = NoRet
  /\ UNCHANGED <<users, convs, msgs, socks, activeUsers, tasks, observed, admins>>

\* Time passes for as long as no request arrives: a second, or all of the
\* edit window but its last second.
Waits == {1, EditWindow - 1}

\* The instants the clock is watched at: the first ones, and the ones about
\* a window later.
Instants == (1..MaxTime) \cup (EditWindow..(EditWindow + MaxTime))

Wait(d) ==
  /\ now + d \in Instants
  /\ now' = now + d
  /\ ret' = NoRet
  /\ UNCHANGED <<users, convs, msgs, socks, activeUsers, tasks, observed, admins>>

(***************************************************************************)
(* Specifications.                                                         *)
(***************************************************************************)
\* The stores after registration of the users, no connection open.
Registered ==
  /\ users = [u \in Users |-> NewUser]
  /\ msgs = <<>>
  /\ socks = [s \in Socks |-> [state |-> "none", user |-> NULL, rooms |-> {}, saving |-> FALSE]]
  /\ activeUsers = [u \in Users |-> NULL]
  /\ tasks = EmptyBag
  /\ ret = NoRet
  /\ now = 1

\* The administrators are accounts of the default role.
Started == Registered /\ admins = [a \in Admins |-> NewAdmin("admin")]

Stores0 == Started /\ convs = <<>>

\* The state POST /api/conversations leaves when user 1 names user 2.
StoresChat == Started /\ convs = <<NewConversation(ArrayOf(<<1, 2>>), "direct", 1)>>

Idle == NumTasks = 0
Free == NumTasks < MaxTasks

\* Concurrent requests to create conversations.
InitCreate == Stores0 /\ observed = {"createConversation"}

NextCreate ==
  \/ \E caller \in Users, body \in Bodies, type \in ConvTypes :
        Free /\ RoomForConv(MaxConvs) /\ PostConversation(caller, body, type)
  \/ \E t \in TaskSet : PostConversationSave(t)

SpecCreate == InitCreate /\ [][NextCreate]_vars

\* The requests that write the participants of a conversation, one request
\* at a time.
InitConv == Stores0 /\ observed = {}

NextConv ==
  \/ \E caller \in Users, body \in Bodies, type \in ConvTypes :
        Idle /\ RoomForConv(MaxManaged) /\ PostConversation(caller, body, type)
  \/ \E t \in TaskSet : PostConversationSave(t)
  \/ \E caller \in Users, c \in ConvIds : Idle /\ DeleteConversation(caller, c)
  \/ \E t \in TaskSet : DeleteConversationSave(t)
  \/ \E caller \in Users, c \in ConvIds, userId \in Users :
        Idle /\ PostParticipant(caller, c, userId)
  \/ \E t \in TaskSet : PostParticipantSave(t)
  \/ \E caller \in Users, c \in ConvIds, userIds \in UserSets :
        Idle /\ RoomForMessage /\ PostMembers(caller, c, userIds)
  \/ \E t \in TaskSet : PostMembersSave(t)
  \/ \E caller \in Users, c \in ConvIds, userId \in Users :
        Idle /\ RoomForMessage /\ DeleteMember(caller, c, userId)
  \/ \E t \in TaskSet : DeleteMemberSave(t)
  \/ \E t \in TaskSet : SystemMessageSave(t)
  \/ \E t \in TaskSet : SystemMessageActivity(t)
  \/ \E userId \in Users : Idle /\ DeleteUser(userId)
  \/ \E t \in TaskSet : DeleteUserMessages(t)
  \/ \E t \in TaskSet : DeleteUserPull(t)
  \/ \E t \in TaskSet : DeleteUserPurge(t)
  \/ \E t \in TaskSet : DeleteUserRow(t)

SpecConv == InitConv /\ [][NextConv]_vars

\* The connections' life: connect, status, disconnect.
InitPresence == Stores0 /\ observed = {"disconnect"}

NextPresence ==
  \/ \E s \in Socks, u \in Users : Connect(s, u)
  \/ \E t \in TaskSet : ConnectSave(t)
  \/ \E s \in Socks : Disconnect(s)
  \/ \E t \in TaskSet : DisconnectSave(t)
  \/ \E s \in Socks : UpdateStatus(s)
  \/ Tick

SpecPresence == InitPresence /\ [][NextPresence]_vars

\* The conversation ids a client may name: those of stored rows and others.
ConvRefs == 1..MaxConvs
MsgRefs == 1..MaxMsgs

\* The rooms: connections are opened and join, leave, type, send and mark
\* as read in a conversation between users 1 and 2, one event at a time.
InitRoom == StoresChat /\ observed = {"join", "leave", "typing", "sendMessage", "markRead"}

NextRoom ==
  \/ \E s \in Socks, u \in Users : Idle /\ Connect(s, u)
  \/ \E t \in TaskSet : ConnectSave(t)
  \/ \E s \in Socks, c \in ConvRefs : Idle /\ JoinConversation(s, c)
  \/ \E t \in TaskSet : JoinConversationFound(t)
  \/ \E s \in Socks, c \in ConvRefs : LeaveConversation(s, c)
  \/ \E s \in Socks, c \in ConvRefs, ev \in TypingEvents : Typing(s, c, ev)
  \/ \E s \in Socks, c \in ConvRefs, content \in Contents :
        Idle /\ RoomForMessage /\ SendMessage(s, c, content, "text", NULL)
  \/ \E t \in TaskSet : SendMessageSave(t)
  \/ \E t \in TaskSet : SendMessageActivity(t)
  \/ \E t \in TaskSet : SendMessagePopulate(t)
  \/ \E s \in Socks, c \in ConvRefs, m \in MsgRefs :
        Idle /\ MarkMessagesRead(s, c, <<m>>)
  \/ \E t \in TaskSet : MarkMessagesReadFound(t)
  \/ \E t \in TaskSet, i \in 1..MaxBody : MarkFind(t, i)
  \/ \E t \in TaskSet, i \in 1..MaxBody : MarkSave(t, i)
  \/ \E t \in TaskSet : MarkEmit(t)

SpecRoom == InitRoom /\ [][NextRoom]_vars

\* Read receipts: messages are posted and connections opened one at a time;
\* REST requests to mark a message as read run concurrently, and so do the
\* callbacks of one mark_messages_read.
InitRead == StoresChat /\ observed = {}

NextRead ==
  \/ \E caller \in Users, c \in ConvRefs :
        Idle /\ RoomForMessage /\ PostMessage(caller, c, <<"hello">>, "text", NULL)
  \/ \E t \in TaskSet : PostMessageSave(t)
  \/ \E t \in TaskSet : PostMessageActivity(t)
  \/ \E t \in TaskSet : PostMessagePopulate(t)
  \/ \E caller \in Users, m \in MsgRefs : Free /\ PostRead(caller, m)
  \/ \E t \in TaskSet : PostReadSave(t)
  \/ \E s \in Socks, u \in Users : Idle /\ Connect(s, u)
  \/ \E t \in TaskSet : ConnectSave(t)
  \/ \E s \in Socks, c \in ConvRefs, messageIds \in MessageIdLists :
        Idle /\ MarkMessagesRead(s, c, messageIds)
  \/ \E t \in TaskSet : MarkMessagesReadFound(t)
  \/ \E t \in TaskSet, i \in 1..MaxBody : MarkFind(t, i)
  \/ \E t \in TaskSet, i \in 1..MaxBody : MarkSave(t, i)
  \/ \E t \in TaskSet : MarkEmit(t)

SpecRead == InitRead /\ [][NextRead]_vars

\* Unread counts: messages are posted and deleted one at a time; the
\* conversation list and the conversation are fetched while messages are
\* marked as read.
InitUnread == StoresChat /\ observed = {"getConversation", "getConversations"}

NextUnread ==
  \/ \E caller \in Users, c \in ConvRefs :
        Idle /\ RoomForMessage /\ PostMessage(caller, c, <<"hello">>, "text", NULL)
  \/ \E t \in TaskSet : PostMessageSave(t)
  \/ \E t \in TaskSet : PostMessageActivity(t)
  \/ \E t \in TaskSet : PostMessagePopulate(t)
  \/ \E caller \in Users, m \in MsgRefs : Free /\ PostRead(caller, m)
  \/ \E t \in TaskSet : PostReadSave(t)
  \/ \E caller \in Users, m \in MsgRefs : Idle /\ DeleteMessage(caller, m)
  \/ \E t \in TaskSet : DeleteMessageSave(t)
  \/ \E caller \in Users, c \in ConvRefs : Free /\ GetConversation(caller, c)
  \/ \E t \in TaskSet : GetConversationCount(t)
  \/ \E caller \in Users : Free /\ GetConversations(caller)
  \/ \E t \in TaskSet, c \in ConvRefs : GetConversationsCount(t, c)

SpecUnread == InitUnread /\ [][NextUnread]_vars

\* Messages are posted (as replies too) and read back one request at a
\* time; edits and deletions run concurrently.
InitDelete == StoresChat /\ observed = {"getMessages", "postMessage", "getConversation"}

NextDelete ==
  \/ \E caller \in Users, c \in ConvRefs, replyTo \in {NULL} \cup MsgRefs :
        Idle /\ RoomForMessage /\ PostMessage(caller, c, <<"hello">>, "text", replyTo)
  \/ \E t \in TaskSet : PostMessageSave(t)
  \/ \E t \in TaskSet : PostMessageActivity(t)
  \/ \E t \in TaskSet : PostMessagePopulate(t)
  \/ \E caller \in Users, m \in MsgRefs : Free /\ PutMessage(caller, m, <<"edited", " ">>)
  \/ \E t \in TaskSet : PutMessageSave(t)
  \/ \E caller \in Users, m \in MsgRefs : Free /\ DeleteMessage(caller, m)
  \/ \E t \in TaskSet : DeleteMessageSave(t)
  \/ \E caller \in Users, c \in ConvRefs : Idle /\ GetMessages(caller, c)
  \/ \E t \in TaskSet : GetMessagesFind(t)
  \/ \E caller \in Users, c \in ConvRefs : Idle /\ GetConversation(caller, c)
  \/ \E t \in TaskSet : GetConversationCount(t)

SpecDelete == InitDelete /\ [][NextDelete]_vars

(***************************************************************************)
(* Properties of conversation creation.                                    *)
(***************************************************************************)
\* The direct conversations between the two users of `pair`.
DirectBetween(pair) ==
  {c \in LiveConvs : /\ convs[c].type = "direct"
                     /\ length(convs[c].participants) = 2
                     /\ Members(convs[c].participants) = pair}

\* A participant count the schema refuses: a direct conversation not of
\* exactly 2, a group of fewer than 2.
RefusedCount(type, n) ==
  \/ type = "direct" /\ n # 2
  \/ type = "group" /\ n < 2

\* The handlers that suspend in this step at the insert of a conversation.
NewCreations ==
  {t \in BagToSet(tasks') : /\ t.kind = "createConversation"
                            /\ CopiesIn(t, tasks') > CopiesIn(t, tasks)}

\* C6: when a direct conversation between two distinct users exists, a POST
\* /api/conversations of type direct for that pair (the identifiers of the
\* request, caller added, are the two users), made by either of them,
\* answers 200 with an existing conversation of the pair and inserts
\* nothing: no row is written and no insert is left pending.
C6_SecondCreateReturnsExisting ==
  [][ /\ \A t \in NewCreations :
            t.type = "direct" => DirectBetween(Members(t.parts)) = {}
      /\ ( /\ ret'.op = "createConversation" /\ ret'.type = "direct"
           /\ ret'.status # 201
           /\ ret'.count = 2 /\ Cardinality(ret'.set) = 2
           /\ DirectBetween(ret'.set) # {} )
         => ( /\ ret'.status = 200
              /\ ret'.conv \in DirectBetween(ret'.set)
              /\ convs' = convs
              /\ tasks' = tasks ) ]_vars

\* The second request has been answered, and it came from the user who did
\* not create the conversation.
C6_Witness ==
  /\ ret.op = "createConversation" /\ ret.type = "direct" /\ ret.status = 200
  /\ ret.conv \in DirectBetween(ret.set)
  /\ convs[ret.conv].createdBy # ret.user

\* C7: at most one direct conversation exists for any unordered pair of
\* participants, in every reachable state, concurrent creations included.
C7_DirectUnique ==
  \A c, d \in LiveConvs :
     ( /\ convs[c].type = "direct" /\ convs[d].type = "direct"
       /\ Members(convs[c].participants) = Members(convs[d].participants) )
     => c = d

\* C8: a creation request whose participant count (the distinct participants
\* once the caller is added) is not exactly 2 for type direct, or below 2 for
\* type group, is answered with an error, and no conversation with such a
\* count is stored or left to be inserted.
C8_RefusedCountFails ==
  /\ ( ret.op = "createConversation" /\ RefusedCount(ret.type, Cardinality(ret.set)) )
     => ret.status \in {400, 500}
  /\ \A t \in TaskSet :
        t.kind = "createConversation" => ~RefusedCount(t.type, Cardinality(Members(t.parts)))
  /\ \A c \in LiveConvs :
        ~RefusedCount(convs[c].type, Cardinality(Members(convs[c].participants)))

\* C9: every stored direct conversation has exactly 2 participants and
\* every stored group conversation at least 2.
C9_ParticipantCounts ==
  \A c \in LiveConvs : ~RefusedCount(convs[c].type, length(convs[c].participants))

(***************************************************************************)
(* Properties of the rooms.                                                *)
(***************************************************************************)
IsParticipant(u, c) ==
  c \in ConvIds /\ convs[c].exists /\ includes(convs[c].participants, u)

\* The step just taken ended a send_message of a participant.
SendEnded == ret.op = "sendMessage" /\ IsParticipant(ret.user, ret.conv)

\* The send_message just ended stored `content` as a message of the sender,
\* delivered it as new_message to every connection in the room, the
\* sender's included, and left the conversation's lastMessage on it.
Delivered(content) ==
  /\ ret.ev = "new_message"
  /\ ret.msg \in MsgIds
  /\ msgs[ret.msg].exists
  /\ msgs[ret.msg].sender = ret.user
  /\ msgs[ret.msg].conversation = ret.conv
  /\ msgs[ret.msg].content = content
  /\ ret.to = InRoom(ret.conv)
  /\ \E v \in ret.view : v.msg = ret.msg /\ v.sender = ret.user /\ v.content = content
  /\ convs[ret.conv].lastMessage = ret.msg

RoomEvents ==
  {"new_message", "messages_read", "user_typing", "user_stopped_typing",
   "user_joined_conversation", "user_left_conversation"}

\* C2: a connection is in the room of a conversation only if its identity
\* is a participant; a join_conversation of a non-participant ends with the
\* connection outside the room and with no event sent; and every event sent
\* to a room reaches connections of participants only.
C2_NonParticipantNeverInRoom ==
  /\ \A s \in Socks : \A c \in socks[s].rooms : IsParticipant(socks[s].user, c)
  /\ (ret.op = "join" /\ ~IsParticipant(ret.user, ret.conv))
        => (ret.ev = "none" /\ ret.to = {} /\ ret.conv \notin socks[ret.sock].rooms)
  /\ (ret.ev \in RoomEvents)
        => \A s \in ret.to : IsParticipant(socks[s].user, ret.conv)

\* A non-participant has asked to join, and later an event went to the
\* room while that connection was open.
C2_Witness ==
  /\ ret.ev = "new_message" /\ ret.to # {}
  /\ \E s \in Socks \ ret.to :
        Connected(s) /\ ~IsParticipant(socks[s].user, ret.conv)

(***************************************************************************)
(* Properties of presence.                                                 *)
(***************************************************************************)
\* The identity has no open connection other than s.
OnlyConnection(u, s) ==
  \A s2 \in Socks \ {s} : ~(Connected(s2) /\ socks[s2].user = u)

\* The step just taken ended the disconnect handler of a connection that
\* was online (its connect had written isOnline) and was U1's only one.
DisconnectEnded ==
  /\ ret.op = "disconnect" /\ ret.type = "online"
  /\ OnlyConnection(ret.user, ret.sock)

C4_OneReceiptPerReader ==
  \A m \in MsgIds : \A u \in Users : CopiesIn(u, msgs[m].readBy) <= 1

\* The messages of c that count as unread for u.
Unread(c, u) ==
  {m \in MsgIds : /\ msgs[m].exists
                  /\ msgs[m].conversation = c
                  /\ ~msgs[m].isDeleted
                  /\ msgs[m].sender # u
                  /\ ~BagIn(u, msgs[m].readBy)}

\* C5: the unreadCount that GET /api/conversations computes for each
\* conversation and that GET /api/conversations/:id returns is the number
\* of messages of the conversation that are not deleted, not sent by the
\* caller and not read by the caller, and the list's response carries the
\* counts so computed.
C5_UnreadCount ==
  /\ (ret.op = "getConversation" /\ ret.status = 200)
        => ret.count = Cardinality(Unread(ret.conv, ret.user))
  /\ (ret.op = "getConversations" /\ ret.conv # NULL)
        => /\ ret.count = Cardinality(Unread(ret.conv, ret.user))
           /\ ret.status = 200 =>
                 [conv |-> ret.conv, count |-> ret.count] \in ret.set

\* The list was answered with one unread message where the conversation
\* also holds a deleted message of the other user.
C5_Witness ==
  /\ ret.op = "getConversations" /\ ret.status = 200 /\ ret.count = 1
  /\ \E m \in MsgIds : /\ msgs[m].conversation = ret.conv
                       /\ msgs[m].sender # ret.user
                       /\ msgs[m].isDeleted

\* Messages are posted, edited and deleted one request at a time while
\* the clock runs up to the edit window and past it.
InitEdit == StoresChat /\ observed = {"putMessage"}

EditContents == {<<"edited", " ">>, <<" ">>}

NextEdit ==
  \/ \E caller \in Users, c \in ConvRefs :
        Idle /\ RoomForMessage /\ PostMessage(caller, c, <<"hello">>, "text", NULL)
  \/ \E t \in TaskSet : PostMessageSave(t)
  \/ \E t \in TaskSet : PostMessageActivity(t)
  \/ \E t \in TaskSet : PostMessagePopulate(t)
  \/ \E caller \in Users, m \in MsgRefs, content \in EditContents :
        Idle /\ PutMessage(caller, m, content)
  \/ \E t \in TaskSet : PutMessageSave(t)
  \/ \E caller \in Users, m \in MsgRefs : Idle /\ DeleteMessage(caller, m)
  \/ \E t \in TaskSet : DeleteMessageSave(t)
  \/ \E d \in Waits : Idle /\ Wait(d)

SpecEdit == InitEdit /\ [][NextEdit]_vars

\* Connections join rooms, messages are posted and lists of message ids
\* are marked as read, one event at a time; the callbacks of one
\* mark_messages_read interleave.
InitMark == StoresChat /\ observed = {"markRead"}

NextMark ==
  \/ \E s \in Socks, u \in Users : Idle /\ Connect(s, u)
  \/ \E t \in TaskSet : ConnectSave(t)
  \/ \E s \in Socks, c \in ConvRefs : Idle /\ JoinConversation(s, c)
  \/ \E t \in TaskSet : JoinConversationFound(t)
  \/ \E caller \in Users, c \in ConvRefs :
        Idle /\ RoomForMessage /\ PostMessage(caller, c, <<"hello">>, "text", NULL)
  \/ \E t \in TaskSet : PostMessageSave(t)
  \/ \E t \in TaskSet : PostMessageActivity(t)
  \/ \E t \in TaskSet : PostMessagePopulate(t)
  \/ \E s \in Socks, c \in ConvRefs, messageIds \in MessageIdLists :
        Idle /\ MarkMessagesRead(s, c, messageIds)
  \/ \E t \in TaskSet : MarkMessagesReadFound(t)
  \/ \E t \in TaskSet, i \in 1..MaxBody : MarkFind(t, i)
  \/ \E t \in TaskSet, i \in 1..MaxBody : MarkSave(t, i)
  \/ \E t \in TaskSet : MarkEmit(t)

SpecMark == InitMark /\ [][NextMark]_vars

\* Connections open and close and send events that carry no payload.
InitEvents == Stores0 /\ observed = {"event"}

NextEvents ==
  \/ \E s \in Socks, u \in Users : Connect(s, u)
  \/ \E t \in TaskSet : ConnectSave(t)
  \/ \E s \in Socks : Disconnect(s)
  \/ \E t \in TaskSet : DisconnectSave(t)
  \/ \E s \in Socks, event \in ClientEvents : OnWithoutData(s, event)

SpecEvents == InitEvents /\ [][NextEvents]_vars

\* Accounts log in and out over REST while their connections open and
\* close, and an administrator asks for deactivations.  Logouts and
\* connections run concurrently; logins and closures start one at a time.
InitAccount == Stores0 /\ observed = {}

NextAccount ==
  \/ \E u \in Users, passwordMatches \in BOOLEAN : Idle /\ Login(u, passwordMatches)
  \/ \E t \in TaskSet : LoginSave(t)
  \/ \E u \in Users : Free /\ Logout(u)
  \/ \E t \in TaskSet : LogoutSave(t)
  \/ \E userId \in Users : DeactivateUser(userId)
  \/ \E s \in Socks, u \in Users : Free /\ Connect(s, u)
  \/ \E t \in TaskSet : ConnectSave(t)
  \/ \E s \in Socks : Idle /\ Disconnect(s)
  \/ \E t \in TaskSet : DisconnectSave(t)
  \/ Tick

SpecAccount == InitAccount /\ [][NextAccount]_vars

\* Conversations are created, joined by further participants and left,
\* one request at a time.
InitLeave == StoresChat /\ observed = {"leaveConversation"}

NextLeave ==
  \/ \E caller \in Users, body \in Bodies, type \in ConvTypes :
        Idle /\ RoomForConv(MaxConvs) /\ PostConversation(caller, body, type)
  \/ \E t \in TaskSet : PostConversationSave(t)
  \/ \E caller \in Users, c \in ConvRefs : Idle /\ DeleteConversation(caller, c)
  \/ \E t \in TaskSet : DeleteConversationSave(t)
  \/ \E caller \in Users, c \in ConvIds, userId \in Users :
        Idle /\ PostParticipant(caller, c, userId)
  \/ \E t \in TaskSet : PostParticipantSave(t)

SpecLeave == InitLeave /\ [][NextLeave]_vars

\* Administrators of every role log in, one request at a time, with the
\* right password and with wrong ones, while the clock runs up to the end
\* of a lock and past it.
InitAdminLogin ==
  /\ Registered /\ convs = <<>> /\ observed = {"adminLogin"}
  /\ admins \in [Admins -> {NewAdmin(role) : role \in Roles}]

NextAdminLogin ==
  \/ \E a \in Admins, passwordMatches \in BOOLEAN : Idle /\ AdminLogin(a, passwordMatches)
  \/ \E t \in TaskSet : AdminLoginUpdate(t)
  \/ \E d \in LockWaits : Idle /\ LockWait(d)

SpecAdminLogin == InitAdminLogin /\ [][NextAdminLogin]_vars

\* Administrators of every role use the administration routes, one
\* request at a time, on stores that hold a direct conversation, a group
\* and a message in each.
InitAdminRoutes ==
  /\ users = [u \in Users |-> NewUser]
  /\ socks = [s \in Socks |-> [state |-> "none", user |-> NULL, rooms |-> {}, saving |-> FALSE]]
  /\ activeUsers = [u \in Users |-> NULL]
  /\ tasks = EmptyBag
  /\ ret = NoRet
  /\ now = 1
  /\ convs = <<NewConversation(ArrayOf(<<1, 2>>), "direct", 1),
               NewConversation(ArrayOf(<<1, 2, 3>>), "group", 1)>>
  /\ msgs = <<NewMessage(1, 1, <<"hello">>, "text", NULL),
              NewMessage(2, 2, <<"hello">>, "text", NULL)>>
  /\ observed = {"adminDeleteConversation", "adminDeleteAll", "adminDeleteNuclear",
                 "deleteUser", "deactivateAdmin"}
  /\ admins \in [Admins -> {NewAdmin(role) : role \in Roles}]

NextAdminRoutes ==
  \/ \E a \in Admins, c \in ConvIds : Idle /\ AdminDeleteConversation(a, c)
  \/ \E a \in Admins : Idle /\ AdminDeleteAll(a)
  \/ \E a \in Admins : Idle /\ AdminDeleteNuclear(a)
  \/ \E a \in Admins, userId \in Users : Idle /\ AdminDeleteUser(a, userId)
  \/ \E t \in TaskSet : DeleteUserMessages(t)
  \/ \E t \in TaskSet : DeleteUserPull(t)
  \/ \E t \in TaskSet : DeleteUserPurge(t)
  \/ \E t \in TaskSet : DeleteUserRow(t)
  \/ \E a \in Admins, adminId \in Admins : Idle /\ DeactivateAdmin(a, adminId)

SpecAdminRoutes == InitAdminRoutes /\ [][NextAdminRoutes]_vars

\* Two conversations: users 1 and 2 talk directly and share a group with
\* user 3.  Messages are posted and sent as replies, one request at a time.
StoresTwo ==
  /\ Started
  /\ convs = <<NewConversation(ArrayOf(<<1, 2>>), "direct", 1),
               NewConversation(ArrayOf(<<1, 2, 3>>), "group", 1)>>

InitReply == StoresTwo /\ observed = {"postMessage", "sendMessage"}

NextReply ==
  \/ \E caller \in Users, c \in ConvRefs, replyTo \in {NULL} \cup MsgRefs :
        Idle /\ RoomForMessage /\ PostMessage(caller, c, <<"hello">>, "text", replyTo)
  \/ \E t \in TaskSet : PostMessageSave(t)
  \/ \E t \in TaskSet : PostMessageActivity(t)
  \/ \E t \in TaskSet : PostMessagePopulate(t)
  \/ \E s \in Socks, u \in Users : Idle /\ Connect(s, u)
  \/ \E t \in TaskSet : ConnectSave(t)
  \/ \E s \in Socks, c \in ConvRefs, replyTo \in {NULL} \cup MsgRefs :
        Idle /\ RoomForMessage /\ SendMessage(s, c, <<"hello">>, "text", replyTo)
  \/ \E t \in TaskSet : SendMessageSave(t)
  \/ \E t \in TaskSet : SendMessageActivity(t)
  \/ \E t \in TaskSet : SendMessagePopulate(t)

SpecReply == InitReply /\ [][NextReply]_vars

\* Conversations are created one at a time; participants and members are
\* added to them by concurrent requests.
InitAdd ==
  /\ Started
  /\ convs = <<NewConversation(ArrayOf(<<1, 2>>), "group", 1)>>
  /\ observed = {}

NextAdd ==
  \/ \E caller \in Users, body \in Bodies, type \in ConvTypes :
        Idle /\ RoomForConv(MaxConvs) /\ PostConversation(caller, body, type)
  \/ \E t \in TaskSet : PostConversationSave(t)
  \/ \E caller \in Users, c \in ConvIds, userId \in Users :
        Free /\ PostParticipant(caller, c, userId)
  \/ \E t \in TaskSet : PostParticipantSave(t)
  \/ \E caller \in Users, c \in ConvIds, userIds \in UserSets :
        Free /\ RoomForMessage /\ PostMembers(caller, c, userIds)
  \/ \E t \in TaskSet : PostMembersSave(t)
  \/ \E t \in TaskSet : SystemMessageSave(t)
  \/ \E t \in TaskSet : SystemMessageActivity(t)

SpecAdd == InitAdd /\ [][NextAdd]_vars

\* Users log in through POST /api/auth/login, one request at a time, under
\* identifiers of which one also names an administrator, while the clock
\* runs up to the end of a lock and past it.
InitLogin == Stores0 /\ observed = {"login"}

NextLogin ==
  \/ \E u \in Users, passwordMatches \in BOOLEAN, adminMatches \in BOOLEAN :
        Idle /\ UnifiedLogin(u, passwordMatches, adminMatches)
  \/ \E t \in TaskSet : UnifiedLoginAdmin(t)
  \/ \E t \in TaskSet : UnifiedLoginUser(t)
  \/ \E t \in TaskSet : LoginSave(t)
  \/ \E d \in LockWaits : Idle /\ LockWait(d)

SpecLogin == InitLogin /\ [][NextLogin]_vars

\* A group of users 1, 2 and 3 created by user 1: connections join its
\* room and send to it while members are removed and leave over REST, one
\* request at a time.
InitMembership ==
  /\ Started
  /\ convs = <<NewConversation(ArrayOf(<<1, 2, 3>>), "group", 1)>>
  /\ observed = {"join", "sendMessage"}

NextMembership ==
  \/ \E s \in Socks, u \in Users : Idle /\ Connect(s, u)
  \/ \E t \in TaskSet : ConnectSave(t)
  \/ \E s \in Socks, c \in ConvIds : Idle /\ JoinConversation(s, c)
  \/ \E t \in TaskSet : JoinConversationFound(t)
  \/ \E caller \in Users, c \in ConvIds, userId \in Users :
        Idle /\ RoomForMessage /\ DeleteMember(caller, c, userId)
  \/ \E t \in TaskSet : DeleteMemberSave(t)
  \/ \E t \in TaskSet : SystemMessageSave(t)
  \/ \E t \in TaskSet : SystemMessageActivity(t)
  \/ \E caller \in Users, c \in ConvIds : Idle /\ DeleteConversation(caller, c)
  \/ \E t \in TaskSet : DeleteConversationSave(t)
  \/ \E s \in Socks, c \in ConvIds :
        Idle /\ RoomForMessage /\ SendMessage(s, c, <<"hello">>, "text", NULL)
  \/ \E t \in TaskSet : SendMessageSave(t)
  \/ \E t \in TaskSet : SendMessageActivity(t)
  \/ \E t \in TaskSet : SendMessagePopulate(t)

SpecMembership == InitMembership /\ [][NextMembership]_vars

\* Messages of the two conversations are marked as read over REST and over
\* the sockets, one request at a time.
InitReceipt == StoresTwo /\ observed = {"markRead", "postRead"}

NextReceipt ==
  \/ \E s \in Socks, u \in Users : Idle /\ Connect(s, u)
  \/ \E t \in TaskSet : ConnectSave(t)
  \/ \E caller \in Users, c \in ConvRefs :
        Idle /\ RoomForMessage /\ PostMessage(caller, c, <<"hello">>, "text", NULL)
  \/ \E t \in TaskSet : PostMessageSave(t)
  \/ \E t \in TaskSet : PostMessageActivity(t)
  \/ \E t \in TaskSet : PostMessagePopulate(t)
  \/ \E caller \in Users, m \in MsgRefs : Idle /\ PostRead(caller, m)
  \/ \E t \in TaskSet : PostReadSave(t)
  \/ \E s \in Socks, c \in ConvRefs, m \in MsgRefs :
        Idle /\ MarkMessagesRead(s, c, <<m>>)
  \/ \E t \in TaskSet : MarkMessagesReadFound(t)
  \/ \E t \in TaskSet, i \in 1..MaxBody : MarkFind(t, i)
  \/ \E t \in TaskSet, i \in 1..MaxBody : MarkSave(t, i)
  \/ \E t \in TaskSet : MarkEmit(t)

SpecReceipt == InitReceipt /\ [][NextReceipt]_vars

\* Logins under administrators' identifiers are processed concurrently,
\* through the administrators' route and through POST /api/auth/login.
InitAdminRace == Stores0 /\ observed = {"adminLogin", "login"}

NextAdminRace ==
  \/ \E a \in Admins, passwordMatches \in BOOLEAN : Free /\ AdminLogin(a, passwordMatches)
  \/ \E t \in TaskSet : AdminLoginUpdate(t)
  \/ \E u \in Users, adminMatches \in BOOLEAN : Free /\ UnifiedLogin(u, FALSE, adminMatches)
  \/ \E t \in TaskSet : UnifiedLoginAdmin(t)
  \/ \E t \in TaskSet : UnifiedLoginUser(t)

SpecAdminRace == InitAdminRace /\ [][NextAdminRace]_vars

\* Messages are posted one at a time and edited and deleted by concurrent
\* requests whose answers are observed.
InitTerminal == StoresChat /\ observed = {"putMessage", "deleteMessage"}

SpecTerminal == InitTerminal /\ [][NextDelete]_vars

\* Messages are sent over REST and over the sockets concurrently while the
\* clock runs.
InitSend == StoresChat /\ observed = {}

NextSend ==
  \/ \E caller \in Users, c \in ConvRefs :
        Free /\ RoomForMessage /\ PostMessage(caller, c, <<"hello">>, "text", NULL)
  \/ \E t \in TaskSet : PostMessageSave(t)
  \/ \E t \in TaskSet : PostMessageActivity(t)
  \/ \E t \in TaskSet : PostMessagePopulate(t)
  \/ \E s \in Socks, u \in Users : Idle /\ Connect(s, u)
  \/ \E t \in TaskSet : ConnectSave(t)
  \/ \E s \in Socks, c \in ConvRefs :
        Free /\ RoomForMessage /\ SendMessage(s, c, <<"hello">>, "text", NULL)
  \/ \E t \in TaskSet : SendMessageSave(t)
  \/ \E t \in TaskSet : SendMessageActivity(t)
  \/ \E t \in TaskSet : SendMessagePopulate(t)
  \/ Tick

SpecSend == InitSend /\ [][NextSend]_vars

(***************************************************************************)
(* Properties of deletion.                                                 *)
(***************************************************************************)
\* C10: once a message is soft-deleted its row stays stored with the
\* creation time it had, and every view of it that a response reads from
\* the store shows the placeholder as content and no file field.
C10_SoftDeleteHides ==
  [][ /\ \A m \in MsgIds :
            msgs[m].isDeleted =>
               /\ msgs'[m].exists
               /\ msgs'[m].createdAt = msgs[m].createdAt
      /\ \A v \in {w \in ret'.view : w.role \in {"message", "replyTo"}} :
            msgs'[v.msg].isDeleted =>
               (v.content = Placeholder /\ v.files = {}) ]_vars

(***************************************************************************)
(* Properties of editing.                                                  *)
(***************************************************************************)
\* The age of message m at time `at`.
Age(m, at) == at - msgs[m].createdAt

\* The response just sent answers an edit, with content that is not blank,
\* of a stored message by its sender, not deleted before the step.
EditAnswered ==
  /\ ret'.op = "putMessage"
  /\ Trim(ret'.text) # <<>>
  /\ ret'.msg \in MsgIds
  /\ msgs[ret'.msg].exists
  /\ msgs[ret'.msg].sender = ret'.user
  /\ ~msgs[ret'.msg].isDeleted

\* C11: an edit of a non-deleted message by its sender is accepted (200,
\* the trimmed content stored, the message marked edited) when the
\* message's age at the handler's age check is at most the edit window,
\* and is rejected with 400 and the message unchanged when the age
\* exceeds the window.
C11_EditWindowBoundary ==
  [][ EditAnswered =>
        IF Age(ret'.msg, ret'.at) <= EditWindow
        THEN /\ ret'.status = 200
             /\ msgs'[ret'.msg].content = Trim(ret'.text)
             /\ msgs'[ret'.msg].isEdited
        ELSE /\ ret'.status = 400
             /\ msgs' = msgs ]_vars

\* An edit one second past the window is refused, of a message that was
\* edited when its age was the window exactly.
C11_Witness ==
  /\ ret.op = "putMessage" /\ ret.status = 400
  /\ Trim(ret.text) # <<>>
  /\ ret.msg \in MsgIds
  /\ msgs[ret.msg].sender = ret.user
  /\ ~msgs[ret.msg].isDeleted
  /\ Age(ret.msg, ret.at) = EditWindow + 1
  /\ msgs[ret.msg].isEdited
  /\ Age(ret.msg, msgs[ret.msg].editedAt) = EditWindow

(***************************************************************************)
(* Properties of disconnection.                                            *)
(***************************************************************************)
\* C12: whenever the disconnect handler of a connection has ended, the
\* identity's registry entry for that connection is gone, the stored user
\* is offline with lastSeen stamped at the closure, and user_offline went
\* to all other connections; whatever writes were in flight at the closure.
C12_DisconnectEffects ==
  ret.op = "disconnect" =>
    /\ activeUsers[ret.user] # ret.sock
    /\ users[ret.user].isOnline = FALSE
    /\ users[ret.user].lastSeen = ret.at
    /\ ret.ev = "user_offline"
    /\ ret.to = Others(ret.sock)

(***************************************************************************)
(* Properties of the last-message pointer.                                 *)
(***************************************************************************)
MessageCreators == {"sendMessage", "postMessage", "addMembers", "removeMember"}

Creating(c) == \E t \in TaskSet : t.kind \in MessageCreators /\ t.conv = c

MessagesOf(c) == {m \in MsgIds : msgs[m].exists /\ msgs[m].conversation = c}

\* C13: while no operation that creates a message of conversation C is in
\* flight, C.lastMessage is null if C has no message and otherwise is a
\* message of C than which none was created later.
C13_LastMessageIsLatest ==
  \A c \in LiveConvs :
    ~Creating(c) =>
      IF MessagesOf(c) = {}
      THEN convs[c].lastMessage = NULL
      ELSE /\ convs[c].lastMessage \in MessagesOf(c)
           /\ \A m \in MessagesOf(c) :
                 msgs[m].createdAt <= msgs[convs[c].lastMessage].createdAt

(***************************************************************************)
(* Properties of mark_messages_read.                                       *)
(***************************************************************************)
Stored(m) == m \in MsgIds /\ msgs[m].exists

\* C14: when the handler of a mark_messages_read sent by a participant of
\* the conversation has ended, every named message that is stored holds a
\* receipt of the caller, no error went out whether or not a named id is
\* stored, and messages_read for the named ids went to the connections in
\* the conversation's room other than the caller's.
C14_MarkReadRecordsAndNotifies ==
  (ret.op = "markRead" /\ IsParticipant(ret.user, ret.conv)) =>
    /\ ret.ev = "messages_read"
    /\ ret.to = InRoom(ret.conv) \ {ret.sock}
    /\ \A m \in ret.set : Stored(m) => includes(msgs[m].readBy, ret.user)

\* A list naming a stored message and an id that is not stored, with
\* another connection in the room.
C14_Witness ==
  /\ ret.op = "markRead" /\ ret.ev = "messages_read"
  /\ ret.to # {}
  /\ ret.sock \in InRoom(ret.conv)
  /\ \E m \in ret.set : Stored(m) /\ msgs[m].sender # ret.user
  /\ \E m \in ret.set : ~Stored(m)

(***************************************************************************)
(* Properties of the membership checks of the socket events.               *)
(***************************************************************************)
MemberChecked == {"sendMessage", "markRead", "join"}

\* The step taken is a step of the suspended handler t.
Resumes(t) == t \in TaskSet /\ t \notin BagToSet(tasks')

\* C15: the handler of a send_message, mark_messages_read or
\* join_conversation whose caller is not a participant of the named
\* conversation ends at its membership query and changes nothing stored
\* and no room; for send_message and mark_messages_read an error event
\* goes to the caller's connection alone, for join_conversation no event
\* goes to anyone.
C15_NonParticipantRefused ==
  [][ \A t \in TaskSet :
        (Resumes(t) /\ t.kind \in MemberChecked /\ ~IsParticipant(t.user, t.conv)) =>
          /\ tasks' = Finish(t)
          /\ msgs' = msgs /\ convs' = convs /\ users' = users /\ socks' = socks
          /\ ret'.sock = t.sock
          /\ IF t.kind = "join"
             THEN ret'.ev = "none" /\ ret'.to = {}
             ELSE ret'.ev = "error" /\ ret'.to = {t.sock} ]_vars

\* A connected user who is no participant of a stored conversation was
\* refused a send to it while a participant's connection was in its room.
C15_Witness ==
  /\ ret.op = "sendMessage" /\ ret.ev = "error" /\ ret.to = {ret.sock}
  /\ ret.conv \in LiveConvs
  /\ ~IsParticipant(ret.user, ret.conv)
  /\ InRoom(ret.conv) # {}
  /\ msgs = <<>>

(***************************************************************************)
(* Properties of the handlers' error paths.                                *)
(***************************************************************************)
\* C16: whichever client event's handler raised an exception, an error
\* event went to the originating connection and to no other, and the
\* connection is still connected.
C16_ExceptionReported ==
  (ret.op = "event" /\ ret.status = 500) =>
    /\ ret.ev = "error"
    /\ ret.to = {ret.sock}
    /\ Connected(ret.sock)

(***************************************************************************)
(* Properties of the stored presence.                                      *)
(***************************************************************************)
\* The step takes the stored user u from online to offline.
GoesOffline(u) ==
  /\ users[u].exists /\ users[u].isOnline
  /\ users'[u].exists /\ ~users'[u].isOnline

\* C17: every step that takes a stored user from online to offline leaves
\* the stored socketId null and lastSeen at the time the operation stamped,
\* and in every stored user socketId is non-null only if isOnline is true.
C17_SocketIdOnlyWhileOnline ==
  [][ \A u \in Users :
        /\ GoesOffline(u) =>
              /\ users'[u].socketId = NULL
              /\ \E t \in TaskSet : t.user = u /\ users'[u].lastSeen = t.at
        /\ (users'[u].exists /\ users'[u].socketId # NULL) => users'[u].isOnline ]_vars

(***************************************************************************)
(* Properties of leaving a conversation.                                   *)
(***************************************************************************)
\* C18: a DELETE /api/conversations/:id by a participant of the
\* conversation, direct or group of any size, is answered with success and
\* leaves the stored participants without the caller (the caller's list
\* holds the conversations whose participants include the caller).
C18_ParticipantCanLeave ==
  [][ (ret'.op = "leaveConversation" /\ IsParticipant(ret'.user, ret'.conv)) =>
        /\ ret'.status = 200
        /\ ~includes(convs'[ret'.conv].participants, ret'.user) ]_vars

(***************************************************************************)
(* Properties of the administrators' lockout.                              *)
(***************************************************************************)
\* The response just sent answers a login of a stored, active administrator.
AdminLoginAnswered ==
  /\ ret'.op = "adminLogin"
  /\ admins[ret'.user].exists /\ admins[ret'.user].isActive

\* C19: a login with a wrong password, of an account that is not locked,
\* is refused and counts: the counter goes up by one (or restarts at one
\* after a lock that has ended), and exactly when it has reached five the
\* account is locked for LockTime from then.  While the lock lasts every login, right
\* password or wrong, is refused and leaves the account as it is.  Once
\* the lock has ended a login with the right password succeeds and clears
\* the counter and the lock.
C19_AdminLockout ==
  [][ AdminLoginAnswered =>
        LET before == admins[ret'.user]
            after == admins'[ret'.user]
        IN  IF before.lockUntil # NULL /\ before.lockUntil > ret'.at
            THEN ret'.status = 423 /\ admins' = admins
            ELSE IF ret'.type = "match"
            THEN ret'.status = 200 /\ after.loginAttempts = 0 /\ after.lockUntil = NULL
            ELSE /\ ret'.status = 400
                 /\ after.loginAttempts \in {before.loginAttempts + 1, 1}
                 /\ IF after.loginAttempts >= MaxLoginAttempts
                    THEN after.lockUntil = now + LockTime
                    ELSE after.lockUntil = NULL ]_vars

\* In the last second of a lock that the fifth wrong password set, the
\* right password was refused.
C19_Witness ==
  /\ ret.op = "adminLogin" /\ ret.status = 423 /\ ret.type = "match"
  /\ admins[ret.user].loginAttempts = MaxLoginAttempts
  /\ admins[ret.user].lockUntil = ret.at + 1
  /\ ret.at >= LockTime

(***************************************************************************)
(* Properties of the administration routes.                                *)
(***************************************************************************)
\* The permission the administration route is said to require.
RequiredPermission(op) ==
  CASE op \in {"adminDeleteConversation", "adminDeleteAll", "adminDeleteNuclear"} ->
         "conversation_management"
    [] op = "deleteUser" -> "user_management"
    [] op = "deactivateAdmin" -> "admin_management"

AdminRouteAnswered ==
  /\ ret'.op \in {"adminDeleteConversation", "adminDeleteAll", "adminDeleteNuclear",
                  "deleteUser", "deactivateAdmin"}
  /\ ret'.user # NULL

\* C20: a request to an administration route by an administrator who lacks
\* the permission of that route (conversation_management for the
\* conversation routes, single, bulk and nuclear deletion included;
\* user_management for the user routes, admin_management for the
\* administrator routes) is rejected and leaves
\* the users, conversations, messages and administrators as they were.
C20_PermissionChecked ==
  [][ (AdminRouteAnswered
       /\ ~hasPermission(admins[ret'.user], RequiredPermission(ret'.op)))
      => /\ ret'.status \in {401, 403, 423}
         /\ users' = users /\ convs' = convs /\ msgs' = msgs /\ admins' = admins ]_vars

(***************************************************************************)
(* Properties of replies.                                                  *)
(***************************************************************************)
\* C21: every stored message with a non-null replyTo names a message that
\* exists and belongs to the same conversation, whether it was stored by
\* send_message or by POST /api/messages.
C21_ReplyInSameConversation ==
  \A m \in MsgIds :
     (msgs[m].exists /\ msgs[m].replyTo # NULL)
        => /\ msgs[m].replyTo \in MsgIds
           /\ msgs[msgs[m].replyTo].exists
           /\ msgs[msgs[m].replyTo].conversation = msgs[m].conversation

(***************************************************************************)
(* Properties of the participant lists.                                    *)
(***************************************************************************)
\* C22: in every state a stored conversation's participant list holds
\* each identity at most once.
C22_ParticipantsOnce ==
  \A c \in LiveConvs, u \in Users : CopiesIn(u, convs[c].participants) <= 1

(***************************************************************************)
(* Properties of the users' login.                                         *)
(***************************************************************************)
\* What the users' table alone answers to a login with these credentials.
UserOutcome(user, passwordMatches) ==
  IF ~user.exists THEN 400
  ELSE IF ~user.isActive THEN 403
  ELSE IF ~passwordMatches THEN 400
  ELSE 200

\* A POST /api/auth/login under a registered user's identifier is answered.
UserLoginAnswered ==
  ret'.op = "login" /\ ret'.user # NULL /\ users[ret'.user].exists

\* C23: the answer to a login under a user's identifier is the one the
\* users' table gives to the credentials, whatever the administrators'
\* table holds, and a login that goes on to the users' credentials leaves
\* every administrator's failed-attempt counter and lock as they were.
C23_UserLoginIgnoresAdmins ==
  [][ /\ UserLoginAnswered =>
            \/ ret'.status = 200 /\ ret'.type # "admin"
            \/ /\ ret'.status # 200
               /\ ret'.status = UserOutcome(users[ret'.user], "user" \in ret'.view)
      /\ \A t \in TaskSet :
            (t.kind = "login" /\ [t EXCEPT !.pc = "user"] \in TaskSet')
               => \A a \in Admins : /\ admins'[a].loginAttempts = admins[a].loginAttempts
                                     /\ admins'[a].lockUntil = admins[a].lockUntil ]_vars

(***************************************************************************)
(* Properties of the presence registry.                                    *)
(***************************************************************************)
LiveConnections(u) == {s \in Socks : Connected(s) /\ socks[s].user = u}

LifecycleInFlight == \E t \in TaskSet : t.kind \in {"connect", "disconnect"}

\* C24: whenever no connect or disconnect handler is in flight,
\* isUserOnline(U) is true exactly when U has a connection that has
\* connected and not yet disconnected, and the socketId the registry keeps
\* for U is that of such a connection.
C24_RegistryMatchesConnections ==
  ~LifecycleInFlight =>
     \A u \in Users :
        /\ isUserOnline(u) <=> LiveConnections(u) # {}
        /\ isUserOnline(u) => activeUsers[u] \in LiveConnections(u)

(***************************************************************************)
(* Properties of the rooms while membership changes.                       *)
(***************************************************************************)
\* C25: in every state every connection in the room of a conversation
\* belongs to a current participant of it, and an event broadcast to the
\* room reaches connections of current participants only.
C25_RoomHoldsParticipantsOnly ==
  /\ \A s \in Socks : \A c \in socks[s].rooms : IsParticipant(socks[s].user, c)
  /\ (ret.ev \in RoomEvents /\ ret.conv # NULL)
        => \A s \in ret.to : IsParticipant(socks[s].user, ret.conv)

(***************************************************************************)
(* Properties of the read receipts.                                        *)
(***************************************************************************)
\* The step records a read receipt of u on message m.
ReceiptRecorded(m, u) ==
  /\ m \in MsgIds /\ msgs[m].exists
  /\ CopiesIn(u, msgs'[m].readBy) > CopiesIn(u, msgs[m].readBy)

\* C26: a read receipt of U is recorded on a message only when U is a
\* participant of the message's conversation, over POST
\* /api/messages/:id/read and over mark_messages_read, whatever
\* conversation the event names.
C26_ReceiptsOfParticipantsOnly ==
  [][ \A m \in MsgIds, u \in Users :
        ReceiptRecorded(m, u) => IsParticipant(u, msgs[m].conversation) ]_vars

(***************************************************************************)
(* Properties of the typing and leaving events.                            *)
(***************************************************************************)
\* C27: a typing_start, typing_stop or leave_conversation naming a
\* conversation of which the connection's identity is not a participant
\* delivers nothing to the conversation's room.
C27_OnlyParticipantsReachRoom ==
  (ret.op \in {"typing", "leave"} /\ ~IsParticipant(ret.user, ret.conv)) => ret.to = {}

(***************************************************************************)
(* Properties of the stored online flag.                                   *)
(***************************************************************************)
\* C28: whenever no handler is in flight, a stored user's isOnline is true
\* exactly when the presence registry holds the user.
C28_OnlineIffRegistered ==
  Idle => \A u \in Users : users[u].exists => (users[u].isOnline <=> isUserOnline(u))

(***************************************************************************)
(* Properties of the administrators' lockout under concurrency.            *)
(***************************************************************************)
\* C29: under any interleaving of concurrently processed logins, an
\* administrator's failed-attempt counter never stands at 5 or more while
\* lockUntil is unset.
C29_CounterBelowLimitWhileUnlocked ==
  \A a \in Admins :
     admins[a].loginAttempts >= MaxLoginAttempts => admins[a].lockUntil # NULL

(***************************************************************************)
(* Properties of soft deletion over time.                                  *)
(***************************************************************************)
\* C30: once a message is stored with isDeleted = true, no step of a
\* user's request sets isDeleted back to false or takes the stored content
\* away from the placeholder, and an edit or a delete answered for that
\* message is answered 404 and leaves the message as it was.
C30_SoftDeleteTerminal ==
  [][ \A m \in MsgIds :
        (msgs[m].exists /\ msgs[m].isDeleted) =>
           /\ msgs'[m].isDeleted
           /\ msgs'[m].content = Placeholder
           /\ (ret'.op \in {"putMessage", "deleteMessage"} /\ ret'.msg = m)
                 => (ret'.status = 404 /\ msgs'[m] = msgs[m]) ]_vars

====
